---------------------------- MODULE Spec2Model ----------------------------
(***************************************************************************)
(* A model of diffhouse: the Repo facade and its temporary clone           *)
(* (api/repo.py, git/cloning.py), the git driver's run scope (git/cli.py), *)
(* the stream splitter (pipelines/utils.py), the parsers of the commit,    *)
(* file-modification and diff pipelines (pipelines/), and the sweep of     *)
(* left-over clones (utils/cleanup.py).                                    *)
(*                                                                         *)
(* Several specifications share the module:                                *)
(*   Spec            the facade's lifecycle, its data properties and the   *)
(*                   iterators it hands out;                               *)
(*   SpecRun         GitCLI.run scopes and their spool files;              *)
(*   SpecSplit       split_stream, one loop iteration per step;            *)
(*   SpecCommits     parse_commits over a git log stream;                  *)
(*   SpecFileMods    extract_filemods joining its two passes;              *)
(*   SpecDiffs       parse_diffs on one file's hunk;                       *)
(*   SpecTimestamp   parse_git_timestamp;                                  *)
(*   SpecCleanup     clone directories and remove_residual_resources;      *)
(*   SpecPar         two iterations over one active Repo, side by side;    *)
(*   SpecMain        extract_commits and the hashes on the main branch;    *)
(*   SpecNumstatPath the path expression of a numstat line;                *)
(*   SpecHunks       the hunks of one file's piece of the patch log.       *)
(* Each specification moves its own variables and leaves the others at     *)
(* their idle values.                                                      *)
(***************************************************************************)
EXTENDS Integers, Sequences, FiniteSets

VARIABLES
    \* ---- Spec: the facade -------------------------------------------
    gitEnv,        \* the installed git: "ok", "old" (below the minimum), "missing"
    constructed,   \* Repo.__init__ has returned
    entered,       \* history: clone() has been called at least once
    _blobs,        \* Repo._blobs
    _active,       \* Repo._active
    _clone,        \* Repo._clone: the TempClone it refers to (0: attribute not set)
    temp_dirs,     \* TempClone id -> state of its temporary directory
    extractor,     \* the Extractor most recently handed out (or NoExtractor)
    iters,         \* the generators made from Extractors, in creation order
    last,          \* what the last call did and what it raised or returned
    \* ---- SpecRun: GitCLI.run ----------------------------------------
    runs,          \* run scope id -> its position, its spool and its outcome
    \* ---- SpecSplit / SpecCommits: split_stream and parse_commits ----
    f,             \* the input stream (a sequence of characters)
    sep,           \* the separator
    chunk_size,    \* characters per read
    pos,           \* the stream's read cursor
    buffer,        \* split_stream's buffer
    exhausted,     \* split_stream has reached EOF and returned
    parts,         \* parts split_stream has yielded that its caller has not taken yet
    out,           \* what the generator under study has yielded so far
    warned,        \* the records parse_commits has warned about and skipped
    pc,            \* the generator's position
    \* ---- SpecFileMods: extract_filemods ----------------------------
    numstat_log,     \* records of the numstat pass not yet parsed
    index,           \* extract_filemods' index: filemod_id -> numstat dict
    name_status_log, \* records of the name-status pass not yet parsed
    name_statuses,   \* history: the dicts parse_name_statuses has yielded
    filemods,        \* the FileMods extract_filemods has yielded
    fm_warned,       \* the records skipped with a warning, by commit hash
    fm_pc,           \* extract_filemods' position
    \* ---- SpecDiffs: parse_diffs -------------------------------------
    diff_change,     \* the change git reports: its two paths
    diff_hunk,       \* the hunk git reports: its lines, marker and text
    diff_paths,      \* path_a, path_b as parse_diffs has them
    diff_lines,      \* lines of the hunk's content not yet scanned
    additions,       \* parse_diffs' additions
    deletions,       \* parse_diffs' deletions
    diffs,           \* the Diffs parse_diffs has yielded
    diff_pc,         \* parse_diffs' position
    \* ---- SpecTimestamp: parse_git_timestamp -------------------------
    ts_wall,         \* the wall-clock time and zone offset git writes
    ts_result,       \* what parse_git_timestamp returned: (utc, local)
    ts_pc,           \* "call", "returned"
    \* ---- SpecCleanup: remove_residual_resources ---------------------
    tmp,             \* the entries of the system's temporary directory
    proc,            \* the process holding the Repo scope
    sweep_seen,      \* history: the entries the sweep's iterdir() listed
    sweep_todo,      \* the entries the sweep's loop has not reached yet
    sweep_warned,    \* the entries the sweep warned about
    sweep_pc,        \* the sweep's position
    sweep_at,        \* history: what the scope's process was doing when the sweep started
    \* ---- SpecPar: two iterations side by side -----------------------
    par_repo,        \* what the clone holds: its commits, its branches
    par_spools,      \* spool id -> its content and its read position
    par_iters,       \* iteration -> its pipeline, its position, its records
    \* ---- SpecMain: extract_commits and its index of main ------------
    main_log,        \* what `git log` writes for the default branch: its lines
    all_log,         \* the dicts parse_commits has still to yield from the --all log
    main,            \* extract_commits' lookup table `main`, as built so far
    main_run,        \* the run scope of the default-branch log: its spool, its cursor
    all_run,         \* the run scope of the --all log: its spool, its cursor
    ec_out,          \* the Commits extract_commits has yielded
    ec_pc,           \* extract_commits' position
    \* ---- SpecNumstatPath: the path expression of a numstat line -----
    ns_change,       \* the change git reports: its two paths
    ns_expr,         \* the path expression (items[2] of the line)
    ns_paths,        \* (path_a, path_b) as parse_numstats has them
    ns_pc,           \* "call", "returned"
    \* ---- SpecHunks: the hunks of one file piece ---------------------
    hk_hunks,        \* the hunks git reports for the file: header numbers and lines
    hk_file,         \* the file piece as parse_diffs reads it from the spool
    hk_grouped,      \* parse_diffs' hunks_grouped not yet yielded
    hk_out,          \* the Diffs yielded for the file piece
    hk_pc            \* parse_diffs' position in the file piece

facadeVars == <<gitEnv, constructed, entered, _blobs, _active, _clone, temp_dirs, extractor, iters, last>>
runVars == <<runs>>
streamVars == <<f, sep, chunk_size, pos, buffer, exhausted, parts, out, warned, pc>>
fileModVars == <<numstat_log, index, name_status_log, name_statuses, filemods, fm_warned, fm_pc>>
diffVars == <<diff_change, diff_hunk, diff_paths, diff_lines, additions, deletions, diffs, diff_pc>>
tsVars == <<ts_wall, ts_result, ts_pc>>
cleanupVars == <<tmp, proc, sweep_seen, sweep_todo, sweep_warned, sweep_pc, sweep_at>>
parVars == <<par_repo, par_spools, par_iters>>
mainVars == <<main_log, all_log, main, main_run, all_run, ec_out, ec_pc>>
pathVars == <<ns_change, ns_expr, ns_paths, ns_pc>>
hunkVars == <<hk_hunks, hk_file, hk_grouped, hk_out, hk_pc>>
lateVars == <<mainVars, pathVars, hunkVars>>
parseVars == <<fileModVars, diffVars, tsVars, cleanupVars, parVars, lateVars>>
vars == <<facadeVars, runVars, streamVars, parseVars>>

-----------------------------------------------------------------------------
(* Bounds of the model. *)

MaxClones == 2
MaxIters == 1
MaxRecs == 2
MaxRuns == 3
MaxLen == 4
MaxChunk == 3
MaxCommits == 2
MaxNumstatLines == 1
MaxNameStatusLines == 2
MaxPathLen == 2
MaxHunkLines == 2
MaxLineLen == 2
MaxLog == 2
MaxExprPathLen == 3
MaxHunks == 2
MaxHunkSize == 2

-----------------------------------------------------------------------------
(* Idle values: what a specification's variables hold while another        *)
(* specification is the one being explored.                                *)

NoExtractor == [kind |-> "none", path |-> 0]

NoCall == [op |-> "none", prop |-> "none", result |-> "none", git |-> "none", it |-> 0, exc |-> "none"]

FacadeIdle ==
    /\ gitEnv = "ok"
    /\ constructed = FALSE
    /\ entered = FALSE
    /\ _blobs = TRUE
    /\ _active = FALSE
    /\ _clone = 0
    /\ temp_dirs = [c \in 1..MaxClones |-> "none"]
    /\ extractor = NoExtractor
    /\ iters = <<>>
    /\ last = NoCall

RunIdle ==
    runs = <<>>

StreamIdle ==
    /\ f = <<>>
    /\ sep = "none"
    /\ chunk_size = 1
    /\ pos = 0
    /\ buffer = <<>>
    /\ exhausted = FALSE
    /\ parts = <<>>
    /\ out = <<>>
    /\ warned = <<>>
    /\ pc = "idle"

FileModIdle ==
    /\ numstat_log = <<>>
    /\ index = {}
    /\ name_status_log = <<>>
    /\ name_statuses = <<>>
    /\ filemods = <<>>
    /\ fm_warned = <<>>
    /\ fm_pc = "idle"

DiffIdle ==
    /\ diff_change = [path_a |-> <<>>, path_b |-> <<>>]
    /\ diff_hunk = <<>>
    /\ diff_paths = <<>>
    /\ diff_lines = <<>>
    /\ additions = <<>>
    /\ deletions = <<>>
    /\ diffs = <<>>
    /\ diff_pc = "idle"

TimestampIdle ==
    /\ ts_wall = [da |-> 1, hr |-> 0, mi |-> 0, se |-> 0, sign |-> "+", oh |-> 0, om |-> 0]
    /\ ts_result = <<>>
    /\ ts_pc = "idle"

CleanupIdle ==
    /\ tmp = {}
    /\ proc = "idle"
    /\ sweep_seen = {}
    /\ sweep_todo = {}
    /\ sweep_warned = {}
    /\ sweep_pc = "idle"
    /\ sweep_at = "none"

ParIdle ==
    /\ par_repo = [commits |-> <<>>, branches |-> <<>>]
    /\ par_spools = <<>>
    /\ par_iters = <<>>

MainIdle ==
    /\ main_log = <<>>
    /\ all_log = <<>>
    /\ main = {}
    /\ main_run = [spool |-> "none", pos |-> 0]
    /\ all_run = [spool |-> "none", pos |-> 0]
    /\ ec_out = <<>>
    /\ ec_pc = "idle"

PathIdle ==
    /\ ns_change = [path_a |-> <<>>, path_b |-> <<>>]
    /\ ns_expr = <<>>
    /\ ns_paths = <<>>
    /\ ns_pc = "idle"

HunkIdle ==
    /\ hk_hunks = <<>>
    /\ hk_file = <<>>
    /\ hk_grouped = <<>>
    /\ hk_out = <<>>
    /\ hk_pc = "idle"

LateIdle ==
    /\ MainIdle
    /\ PathIdle
    /\ HunkIdle

ParseIdle ==
    /\ FileModIdle
    /\ DiffIdle
    /\ TimestampIdle
    /\ CleanupIdle
    /\ ParIdle
    /\ LateIdle

-----------------------------------------------------------------------------
(* The facade: api/repo.py, git/cloning.py, and the first step of each     *)
(* pipeline as far as it touches the clone directory.                      *)

BasicProps == {"branches", "tags", "commits"}
BlobProps == {"filemods", "diffs"}
DataProps == BasicProps \cup BlobProps

(* GitCLI.__init__ in a directory that exists: `git --version` is run      *)
(* through GitCLI.run, then the version is compared with the minimum.      *)
(* "ok" when the constructor returns, else the exception it raises.        *)
GitCLI_init ==
    IF gitEnv = "missing" THEN "EnvironmentError"
    ELSE IF gitEnv = "old" THEN "GitError"
    ELSE "ok"

(* require_active with the lifecycle check left out. *)
require_active_skipped ==
    "ok"

(* Repo._require_active *)
require_active ==
    IF ~_active THEN "NotClonedError" ELSE "ok"

(* require_blobs with the filter check left out. *)
require_blobs_skipped ==
    "ok"

(* Repo._require_blobs *)
require_blobs ==
    IF ~_blobs THEN "FilterError" ELSE "ok"

(* read_result with the two checks of filemods and diffs in the other      *)
(* order: the lifecycle first, then the blobs filter.                      *)
read_result_active_first(prop) ==
    IF require_active # "ok" THEN require_active
    ELSE IF prop \in BlobProps /\ require_blobs # "ok" THEN require_blobs
    ELSE "Extractor"

(* What reading a data property returns or raises: filemods and diffs      *)
(* check the blobs filter first, then the lifecycle; the others only the   *)
(* lifecycle.                                                              *)
read_result(prop) ==
    IF prop \in BlobProps /\ require_blobs # "ok" THEN require_blobs
    ELSE IF require_active # "ok" THEN require_active
    ELSE "Extractor"

(* Repo.__init__: stores source and blobs, sets _active = False. It does   *)
(* not construct a GitCLI and does not run git.                            *)
Repo_init(b) ==
    /\ ~constructed
    /\ constructed' = TRUE
    /\ _blobs' = b
    /\ _active' = FALSE
    /\ last' = [NoCall EXCEPT !.op = "init", !.result = "ok"]
    /\ UNCHANGED <<gitEnv, entered, _clone, temp_dirs, extractor, iters>>

(* TempClone.__enter__ as called from Repo.clone: the directory is made,   *)
(* GitCLI is constructed in it, `git clone` runs. cloneExit is the exit    *)
(* status of `git clone` if it gets to run.                                *)
TempClone_enter(cloneExit) ==
    IF GitCLI_init # "ok" THEN [result |-> GitCLI_init, git |-> "none", dir |-> "empty"]
    ELSE IF cloneExit # 0 THEN [result |-> "GitError", git |-> "nonzero", dir |-> "empty"]
    ELSE [result |-> "ok", git |-> "zero", dir |-> "cloned"]

(* Repo.clone with _active set before TempClone.__enter__ is called. *)
clone_active_first(cloneExit) ==
    /\ constructed
    /\ \E c \in 1..MaxClones :
        /\ temp_dirs[c] = "none"
        /\ \A d \in 1..(c - 1) : temp_dirs[d] # "none"
        /\ LET r == TempClone_enter(cloneExit) IN
            /\ _clone' = c
            /\ temp_dirs' = [temp_dirs EXCEPT ![c] = r.dir]
            /\ _active' = TRUE
            /\ last' = [NoCall EXCEPT !.op = "clone", !.result = r.result, !.git = r.git]
    /\ entered' = TRUE
    /\ UNCHANGED <<gitEnv, constructed, _blobs, extractor, iters>>

(* Repo.clone (and Repo.__enter__): self._clone is assigned the new        *)
(* TempClone before its __enter__ runs; _active is set only when           *)
(* __enter__ returns.                                                      *)
clone(cloneExit) ==
    /\ constructed
    /\ \E c \in 1..MaxClones :
        /\ temp_dirs[c] = "none"
        /\ \A d \in 1..(c - 1) : temp_dirs[d] # "none"
        /\ LET r == TempClone_enter(cloneExit) IN
            /\ _clone' = c
            /\ temp_dirs' = [temp_dirs EXCEPT ![c] = r.dir]
            /\ _active' = IF r.result = "ok" THEN TRUE ELSE _active
            /\ last' = [NoCall EXCEPT !.op = "clone", !.result = r.result, !.git = r.git]
    /\ entered' = TRUE
    /\ UNCHANGED <<gitEnv, constructed, _blobs, extractor, iters>>

(* TempClone.__exit__: TemporaryDirectory.cleanup() *)
TempClone_exit(dirs, c) ==
    [dirs EXCEPT ![c] = "removed"]

(* Repo.dispose, reached from __exit__ (with or without an exception in    *)
(* the scope), from __del__ and from a direct call.                        *)
dispose(how) ==
    /\ constructed
    /\ IF _active
       THEN /\ temp_dirs' = TempClone_exit(temp_dirs, _clone)
            /\ _active' = FALSE
       ELSE UNCHANGED <<temp_dirs, _active>>
    /\ last' = [NoCall EXCEPT !.op = "dispose", !.prop = how, !.result = "ok"]
    /\ UNCHANGED <<gitEnv, constructed, entered, _blobs, _clone, extractor, iters>>

(* A TempClone the Repo no longer refers to is garbage: the finalizer of   *)
(* its TemporaryDirectory removes the directory whenever the runtime       *)
(* collects it.                                                            *)
finalize(c) ==
    /\ c # _clone
    /\ temp_dirs[c] \in {"empty", "cloned"}
    /\ temp_dirs' = [temp_dirs EXCEPT ![c] = "removed"]
    /\ last' = [NoCall EXCEPT !.op = "finalize"]
    /\ UNCHANGED <<gitEnv, constructed, entered, _blobs, _active, _clone, extractor, iters>>

(* The data properties: branches, tags, commits, filemods, diffs. *)
read(prop) ==
    /\ constructed
    /\ LET r == read_result(prop) IN
        /\ extractor' = IF r = "Extractor" THEN [kind |-> prop, path |-> _clone] ELSE extractor
        /\ last' = [NoCall EXCEPT !.op = "read", !.prop = prop, !.result = r]
    /\ UNCHANGED <<gitEnv, constructed, entered, _blobs, _active, _clone, temp_dirs, iters>>

(* Extractor.__iter__ / _extract: calls the extractor function, which      *)
(* makes the _safe_iter generator around the pipeline generator. Nothing   *)
(* of either runs until the first next().                                  *)
Extractor_iter ==
    /\ extractor # NoExtractor
    /\ Len(iters) < MaxIters
    /\ iters' = Append(iters, [path |-> extractor.path, pc |-> "unstarted", left |-> 0])
    /\ last' = [NoCall EXCEPT !.op = "iter", !.prop = extractor.kind, !.result = "ok"]
    /\ UNCHANGED <<gitEnv, constructed, entered, _blobs, _active, _clone, temp_dirs, extractor>>

(* The exceptions a pipeline generator can let out: those derived from     *)
(* Exception (FileNotFoundError from GitCLI's constructor, GitError and    *)
(* EnvironmentError from GitCLI.run, RuntimeError for a StopIteration      *)
(* inside the generator or any other failure of the parsing), and          *)
(* KeyboardInterrupt, which derives from BaseException only.               *)
ExceptionSubclasses == {"FileNotFoundError", "GitError", "EnvironmentError", "RuntimeError"}

BaseExceptionOnly == {"KeyboardInterrupt"}

(* Repo._safe_iter with only its first except clause. *)
safe_iter_first_clause(exc) ==
    IF exc = "FileNotFoundError" THEN "NotClonedError" ELSE exc

(* Repo._safe_iter: FileNotFoundError becomes NotClonedError, every other  *)
(* Exception (GitError and EnvironmentError included) becomes ParserError; *)
(* what is not an Exception is not caught.                                 *)
safe_iter(exc) ==
    IF exc = "FileNotFoundError" THEN "NotClonedError"
    ELSE IF exc \in ExceptionSubclasses THEN "ParserError"
    ELSE exc

(* The part of a pipeline generator that runs on the first next(): every   *)
(* pipeline constructs a GitCLI on the clone path (FileNotFoundError when  *)
(* the directory does not exist) and runs all its git commands to          *)
(* completion into spools before it yields its first record. gitExit is    *)
(* the exit status of the git commands, n the number of records parsed     *)
(* from the spool.                                                         *)
pipeline_start(it, gitExit, n) ==
    IF temp_dirs[it.path] \notin {"empty", "cloned"} THEN [exc |-> "FileNotFoundError", git |-> "none", n |-> 0]
    ELSE IF GitCLI_init # "ok" THEN [exc |-> GitCLI_init, git |-> "none", n |-> 0]
    ELSE IF gitExit # 0 \/ temp_dirs[it.path] = "empty" THEN [exc |-> "GitError", git |-> "nonzero", n |-> 0]
    ELSE [exc |-> "none", git |-> "zero", n |-> n]

(* next() on a wrapped iterator. raised is what the pipeline's own code    *)
(* raises during this next(), after its git commands: nothing, a failure   *)
(* of the parsing, or the user's interrupt.                                *)
pull(i, gitExit, n, raised) ==
    /\ i \in 1..Len(iters)
    /\ LET it == iters[i]
           call == [NoCall EXCEPT !.op = "pull", !.it = i]
       IN
        CASE it.pc = "unstarted" ->
                LET s == pipeline_start(it, gitExit, n) IN
                IF s.exc # "none"
                THEN /\ raised = "none"
                     /\ iters' = [iters EXCEPT ![i].pc = "raised"]
                     /\ last' = [call EXCEPT !.result = safe_iter(s.exc), !.git = s.git, !.exc = s.exc]
                ELSE IF raised # "none"
                THEN /\ n = 0
                     /\ iters' = [iters EXCEPT ![i].pc = "raised"]
                     /\ last' = [call EXCEPT !.result = safe_iter(raised), !.git = s.git, !.exc = raised]
                ELSE IF s.n = 0
                THEN /\ iters' = [iters EXCEPT ![i].pc = "done"]
                     /\ last' = [call EXCEPT !.result = "StopIteration", !.git = s.git]
                ELSE /\ iters' = [iters EXCEPT ![i].pc = "running", ![i].left = s.n - 1]
                     /\ last' = [call EXCEPT !.result = "record", !.git = s.git]
          [] it.pc = "running" ->
                \* the rest of the records come out of the spool, which is
                \* not in the clone directory
                /\ gitExit = 0 /\ n = 0
                /\ IF raised # "none"
                   THEN /\ iters' = [iters EXCEPT ![i].pc = "raised"]
                        /\ last' = [call EXCEPT !.result = safe_iter(raised), !.exc = raised]
                   ELSE IF it.left > 0
                   THEN /\ iters' = [iters EXCEPT ![i].left = it.left - 1]
                        /\ last' = [call EXCEPT !.result = "record"]
                   ELSE /\ iters' = [iters EXCEPT ![i].pc = "done"]
                        /\ last' = [call EXCEPT !.result = "StopIteration"]
          [] OTHER ->
                /\ gitExit = 0 /\ n = 0 /\ raised = "none"
                /\ UNCHANGED iters
                /\ last' = [call EXCEPT !.result = "StopIteration"]
    /\ UNCHANGED <<gitEnv, constructed, entered, _blobs, _active, _clone, temp_dirs, extractor>>

Init ==
    /\ gitEnv \in {"ok", "old", "missing"}
    /\ constructed = FALSE
    /\ entered = FALSE
    /\ _blobs = TRUE
    /\ _active = FALSE
    /\ _clone = 0
    /\ temp_dirs = [c \in 1..MaxClones |-> "none"]
    /\ extractor = NoExtractor
    /\ iters = <<>>
    /\ last = NoCall
    /\ RunIdle
    /\ StreamIdle
    /\ ParseIdle

Next ==
    \/ \E b \in BOOLEAN : Repo_init(b) /\ UNCHANGED <<runVars, streamVars, parseVars>>
    \/ \E e \in {0, 1} : clone(e) /\ UNCHANGED <<runVars, streamVars, parseVars>>
    \/ \E how \in {"exit", "exit_exc", "call"} : dispose(how) /\ UNCHANGED <<runVars, streamVars, parseVars>>
    \/ \E c \in 1..MaxClones : finalize(c) /\ UNCHANGED <<runVars, streamVars, parseVars>>
    \/ \E p \in DataProps : read(p) /\ UNCHANGED <<runVars, streamVars, parseVars>>
    \/ Extractor_iter /\ UNCHANGED <<runVars, streamVars, parseVars>>
    \/ \E i \in 1..MaxIters, e \in {0, 1}, n \in 0..MaxRecs, x \in {"none", "RuntimeError", "KeyboardInterrupt"} : pull(i, e, n, x) /\ UNCHANGED <<runVars, streamVars, parseVars>>

Spec == Init /\ [][Next]_vars

-----------------------------------------------------------------------------
(* Claims about the facade, checked under Spec.                            *)

DirExists(c) == c # 0 /\ temp_dirs[c] \in {"empty", "cloned"}

(* C1: on a Repo that is not active (never cloned, or disposed) a read of  *)
(* branches, tags or commits raises NotClonedError and hands out no        *)
(* extractor; on an active Repo the read returns an Extractor on the       *)
(* current clone, for blobs = true and blobs = false alike.                *)
C1_BasicReadsNeedActive ==
    [][\A p \in BasicProps :
        (last'.op = "read" /\ last'.prop = p) =>
            IF _active
            THEN last'.result = "Extractor" /\ extractor' = [kind |-> p, path |-> _clone]
            ELSE last'.result = "NotClonedError" /\ extractor' = extractor]_vars

(* C1 witness: a disposed blobs = false Repo has just refused commits.     *)
C1_Witness ==
    /\ last.op = "read" /\ last.prop = "commits" /\ last.result = "NotClonedError"
    /\ ~_blobs /\ ~_active /\ _clone # 0 /\ temp_dirs[_clone] = "removed"

(* C2: on an active Repo with blobs = false a read of filemods or diffs    *)
(* raises FilterError and hands out no extractor; with blobs = true both   *)
(* reads return an Extractor.                                              *)
C2_BlobReadsNeedBlobs ==
    [][\A p \in BlobProps :
        (last'.op = "read" /\ last'.prop = p /\ _active) =>
            IF _blobs
            THEN last'.result = "Extractor" /\ extractor' = [kind |-> p, path |-> _clone]
            ELSE last'.result = "FilterError" /\ extractor' = extractor]_vars

(* C2 witness: an active blobs = false Repo has just refused filemods.     *)
C2_Witness ==
    /\ last.op = "read" /\ last.prop = "filemods" /\ last.result = "FilterError"
    /\ ~_blobs /\ _active

(* C3 as stated: before the scope is first entered, a read of any of the   *)
(* five data properties raises NotClonedError, whatever blobs is.          *)
C3_Original ==
    (last.op = "read" /\ ~entered) => last.result = "NotClonedError"

(* C3 as amended: before the scope is first entered no read hands out an   *)
(* extractor; branches, tags and commits raise NotClonedError whatever     *)
(* blobs is; filemods and diffs raise NotClonedError when blobs = true and *)
(* FilterError when blobs = false.                                         *)
C3_ConstructedReads ==
    [][(last'.op = "read" /\ ~entered) =>
        /\ extractor' = extractor
        /\ last'.result = IF last'.prop \in BlobProps /\ ~_blobs THEN "FilterError" ELSE "NotClonedError"]_vars

(* C3 witness: a constructed blobs = false Repo has just answered a read   *)
(* of diffs with FilterError.                                              *)
C3_Witness ==
    /\ last.op = "read" /\ last.prop = "diffs" /\ last.result = "FilterError"
    /\ ~_blobs /\ ~entered

(* C4 as stated: once the Repo is disposed and the clone directory is      *)
(* gone, a pull from an iterator obtained while it was active raises       *)
(* NotClonedError, whether the iterator was never started or is partly     *)
(* consumed with records still to come; no record is yielded.              *)
C4_Original ==
    [][(/\ last'.op = "pull"
        /\ ~_active
        /\ temp_dirs[iters[last'.it].path] = "removed"
        /\ \/ iters[last'.it].pc = "unstarted"
           \/ iters[last'.it].pc = "running" /\ iters[last'.it].left > 0)
       => last'.result = "NotClonedError"]_vars

(* C5 as stated: whenever a spawned git command exits non-zero, during the *)
(* clone or while a pipeline iterator is consumed, the caller gets a       *)
(* GitError.                                                               *)
C5_Original ==
    last.git = "nonzero" => last.result = "GitError"

(* C6 as stated: after a scope exit (normal or with an exception) and      *)
(* after a scope entry whose git clone command failed, the directory that  *)
(* entry created no longer exists.                                         *)
C6_Original ==
    (\/ last.op = "dispose"
     \/ last.op = "clone" /\ last.git = "nonzero")
    => ~DirExists(_clone)

(* C8 as stated: when the installed git is older than the minimum, the     *)
(* construction of the facade fails, and what is raised is the             *)
(* environment error, never GitError.                                      *)
C8_Original ==
    gitEnv = "old" => (~constructed /\ last.result \in {"none", "EnvironmentError"})

-----------------------------------------------------------------------------
(* GitCLI.run (git/cli.py): a context manager around a spool file. A run   *)
(* scope is entered (the spool is created, git runs into it, the stream is *)
(* handed to the caller) and later left (the caller's block ends, with or  *)
(* without an exception). A scope the caller never leaves keeps its spool. *)

GitOutcomes == {"zero", "nonzero", "missing"}
BodyOutcomes == {"normal", "Exception", "FileNotFoundError"}

(* f.close() on a TemporaryFile, from the finally clause and again from    *)
(* the with statement: the file is closed, and with that deleted.          *)
TemporaryFile_close(spool) ==
    "closed"

(* GitCLI.run with check = False: the exit status of git is not looked at. *)
GitCLI_run_enter_unchecked(git) ==
    IF git = "missing"
    THEN [pc |-> "exited", spool |-> TemporaryFile_close("open"), handed |-> FALSE, error |-> "EnvironmentError", git |-> git, body |-> "none"]
    ELSE [pc |-> "yielded", spool |-> "open", handed |-> TRUE, error |-> "none", git |-> git, body |-> "none"]

(* GitCLI.run up to its yield: TemporaryFile is created, subprocess.run    *)
(* (check = True) runs git to completion. A missing binary raises          *)
(* FileNotFoundError, turned into EnvironmentError; a non-zero exit raises *)
(* CalledProcessError, turned into GitError; both leave through the        *)
(* finally clause and the with statement. Otherwise the stream is yielded. *)
GitCLI_run_enter(git) ==
    IF git = "missing"
    THEN [pc |-> "exited", spool |-> TemporaryFile_close("open"), handed |-> FALSE, error |-> "EnvironmentError", git |-> git, body |-> "none"]
    ELSE IF git = "nonzero"
    THEN [pc |-> "exited", spool |-> TemporaryFile_close("open"), handed |-> FALSE, error |-> "GitError", git |-> git, body |-> "none"]
    ELSE [pc |-> "yielded", spool |-> "open", handed |-> TRUE, error |-> "none", git |-> git, body |-> "none"]

(* GitCLI.run after its yield: an exception of the caller's block is       *)
(* thrown into the generator at the yield, inside the same try: a          *)
(* FileNotFoundError is turned into EnvironmentError, any other passes     *)
(* through; the finally clause and the with statement close the spool.     *)
GitCLI_run_exit(r, body) ==
    [r EXCEPT !.pc = "exited",
              !.spool = TemporaryFile_close(r.spool),
              !.body = body,
              !.error = IF body = "FileNotFoundError" THEN "EnvironmentError"
                        ELSE IF body = "normal" THEN "none" ELSE body]

run_enter(git) ==
    /\ Len(runs) < MaxRuns
    /\ runs' = Append(runs, GitCLI_run_enter(git))

run_exit(i, body) ==
    /\ i \in 1..Len(runs)
    /\ runs[i].pc = "yielded"
    /\ runs' = [runs EXCEPT ![i] = GitCLI_run_exit(runs[i], body)]

InitRun ==
    /\ runs = <<>>
    /\ FacadeIdle
    /\ StreamIdle
    /\ ParseIdle

NextRun ==
    \/ \E g \in GitOutcomes : run_enter(g) /\ UNCHANGED <<facadeVars, streamVars, parseVars>>
    \/ \E i \in 1..MaxRuns, b \in BodyOutcomes : run_exit(i, b) /\ UNCHANGED <<facadeVars, streamVars, parseVars>>

SpecRun == InitRun /\ [][NextRun]_vars

(* C7: every spool a run scope created is closed and deleted once the      *)
(* scope has been left, whichever way: normal completion, non-zero git     *)
(* exit, missing git binary, exception in the consuming block; a scope     *)
(* still open has its spool open; and no stream is handed out when git     *)
(* exits non-zero.                                                         *)
C7_SpoolReleased ==
    \A i \in 1..Len(runs) :
        /\ runs[i].pc = "exited" => runs[i].spool = "closed"
        /\ runs[i].pc = "yielded" => runs[i].spool = "open" /\ runs[i].git = "zero"
        /\ runs[i].git = "nonzero" => ~runs[i].handed /\ runs[i].error = "GitError"

(* C7 witness: one scope was left by an exception of its consumer, one by  *)
(* a non-zero git exit, one by a missing binary; all three spools are      *)
(* closed.                                                                 *)
C7_Witness ==
    /\ \E i \in 1..Len(runs) : runs[i].body = "Exception" /\ runs[i].spool = "closed"
    /\ \E i \in 1..Len(runs) : runs[i].git = "nonzero" /\ runs[i].spool = "closed"
    /\ \E i \in 1..Len(runs) : runs[i].git = "missing" /\ runs[i].spool = "closed"

-----------------------------------------------------------------------------
(* split_stream (pipelines/utils.py). A stream is a sequence of            *)
(* characters; a character is a string of the model.                       *)

Min(a, b) == IF a < b THEN a ELSE b

(* Strings over an alphabet, up to a length. *)
Strings(alphabet, n) == UNION {[1..k -> alphabet] : k \in 0..n}

(* f.read(chunk_size) at cursor p: the next chunk_size characters, fewer   *)
(* at the end of the stream, none at EOF.                                  *)
StringIO_read(stream, p, n) ==
    SubSeq(stream, p + 1, Min(p + n, Len(stream)))

(* str.split(sep) for a one-character sep: the pieces between the          *)
(* occurrences of sep, one more than there are occurrences.                *)
RECURSIVE str_split(_, _)
str_split(str, c) ==
    IF \A i \in 1..Len(str) : str[i] # c
    THEN <<str>>
    ELSE LET i == CHOOSE j \in 1..Len(str) : str[j] = c /\ \A k \in 1..(j - 1) : str[k] # c
         IN <<SubSeq(str, 1, i - 1)>> \o str_split(SubSeq(str, i + 1, Len(str)), c)

(* sep.join(pieces) *)
RECURSIVE str_join(_, _)
str_join(pieces, c) ==
    IF pieces = <<>> THEN <<>>
    ELSE IF Len(pieces) = 1 THEN pieces[1]
    ELSE pieces[1] \o <<c>> \o str_join(Tail(pieces), c)

(* One iteration of split_stream's loop, given the buffer and the chunk    *)
(* just read. At EOF a non-empty buffer is yielded and the generator       *)
(* returns. Otherwise the chunk is split and the buffer is put in front of *)
(* its first piece; with a single piece (no separator in the chunk) the    *)
(* loop continues without storing that piece, so the buffer stays as it    *)
(* was; else all pieces but the last are yielded and the last becomes the  *)
(* buffer.                                                                 *)
split_stream_iter(buf, chunk, c) ==
    IF chunk = <<>>
    THEN [yielded |-> IF buf # <<>> THEN <<buf>> ELSE <<>>, buffer |-> buf, done |-> TRUE]
    ELSE LET ps0 == str_split(chunk, c)
             ps == [ps0 EXCEPT ![1] = buf \o ps0[1]]
         IN IF Len(ps) = 1
            THEN [yielded |-> <<>>, buffer |-> buf, done |-> FALSE]
            ELSE [yielded |-> SubSeq(ps, 1, Len(ps) - 1), buffer |-> ps[Len(ps)], done |-> FALSE]

(* A step of the split_stream generator: read a chunk, run the loop body.  *)
(* What it yields is queued in parts for the caller.                       *)
split_stream ==
    /\ ~exhausted
    /\ LET chunk == StringIO_read(f, pos, chunk_size)
           r == split_stream_iter(buffer, chunk, sep)
       IN
        /\ pos' = pos + Len(chunk)
        /\ buffer' = r.buffer
        /\ parts' = parts \o r.yielded
        /\ exhausted' = r.done
    /\ UNCHANGED <<f, sep, chunk_size>>

(* list(split_stream(f, sep, chunk_size)): the caller takes every part as  *)
(* it is yielded.                                                          *)
split_next ==
    /\ pc = "split"
    /\ parts = <<>>
    /\ split_stream
    /\ UNCHANGED <<out, warned, pc>>

split_take ==
    /\ pc = "split"
    /\ parts # <<>>
    /\ out' = Append(out, Head(parts))
    /\ parts' = Tail(parts)
    /\ UNCHANGED <<f, sep, chunk_size, pos, buffer, exhausted, warned, pc>>

split_end ==
    /\ pc = "split"
    /\ parts = <<>>
    /\ exhausted
    /\ pc' = "split_done"
    /\ UNCHANGED <<f, sep, chunk_size, pos, buffer, exhausted, parts, out, warned>>

SplitAlphabet == {"a", "b"}

InitSplit ==
    /\ f \in Strings(SplitAlphabet, MaxLen)
    /\ sep \in SplitAlphabet
    /\ chunk_size \in 1..MaxChunk
    /\ pos = 0
    /\ buffer = <<>>
    /\ exhausted = FALSE
    /\ parts = <<>>
    /\ out = <<>>
    /\ warned = <<>>
    /\ pc = "split"
    /\ FacadeIdle
    /\ RunIdle
    /\ ParseIdle

NextSplit ==
    \/ split_next /\ UNCHANGED <<facadeVars, runVars, parseVars>>
    \/ split_take /\ UNCHANGED <<facadeVars, runVars, parseVars>>
    \/ split_end /\ UNCHANGED <<facadeVars, runVars, parseVars>>

SpecSplit == InitSplit /\ [][NextSplit]_vars

(* C9 as stated: for every input, every one-character separator and every  *)
(* chunk size >= 1, what split_stream yields, joined by the separator, is  *)
(* the input.                                                              *)
C9_Original ==
    pc = "split_done" => str_join(out, sep) = f

(* C22 as stated: for an input in which the separator occurs, the first    *)
(* element split_stream yields is the prefix of the input before the first *)
(* occurrence of the separator (the empty string when the input begins     *)
(* with the separator).                                                    *)
C22_Original ==
    (pc = "split_done" /\ \E i \in 1..Len(f) : f[i] = sep) =>
        /\ out # <<>>
        /\ out[1] = str_split(f, sep)[1]

-----------------------------------------------------------------------------
(* parse_commits (pipelines/commit_pipeline.py) over a git log stream.     *)
(* The characters of a log stream: RS and US are the record and unit       *)
(* separators (0x1E, 0x1F); "h1", "h2", "p" each stand for a 40-digit      *)
(* hash, "d" for a well-formed 25-character timestamp, " " is a space, the *)
(* others are one character of free text.                                  *)

RECORD_SEPARATOR == "RS"
UNIT_SEPARATOR == "US"

(* chunk_size = 10_000 of parse_commits, scaled to the records of the      *)
(* model: one record of the model, with its RS, fits into one chunk, two   *)
(* records do not.                                                         *)
COMMITS_CHUNK_SIZE == 24

FIELDS == <<"commit_hash", "author_name", "author_email", "author_date", "committer_name", "committer_email", "committer_date", "message", "parents", "source">>

(* parse_git_timestamp reads fixed positions of the first 25 characters:   *)
(* it returns when they are a timestamp and raises when they are not       *)
(* (int() of a non-number, an index past the end).                         *)
parse_git_timestamp_raises(dtstr) ==
    ~(Len(dtstr) >= 1 /\ dtstr[1] = "d")

(* The try block of parse_commits on one record: whether it raises.        *)
(* zip(FIELDS, values[:-1], strict=True) raises unless there are exactly   *)
(* as many values before the last as there are fields; the two dates are   *)
(* parsed; nothing else in the block can raise.                            *)
decode_raises(record) ==
    LET values == str_split(record, UNIT_SEPARATOR) IN
        \/ Len(values) - 1 # Len(FIELDS)
        \/ parse_git_timestamp_raises(values[7])
        \/ parse_git_timestamp_raises(values[4])

(* The same block with the parents field split unconditionally. *)
decode_split_always(record) ==
    LET values == str_split(record, UNIT_SEPARATOR)
        parents == str_split(values[9], " ")
    IN [commit_hash |-> values[1],
        author_name |-> values[2],
        committer_name |-> values[5],
        message |-> values[8],
        parents |-> parents,
        is_merge |-> Len(parents) > 1,
        source |-> values[10]]

(* The try block of parse_commits on one record that decodes: the fields   *)
(* of the dict it yields (dates and shortstat numbers left out).           *)
decode(record) ==
    LET values == str_split(record, UNIT_SEPARATOR)
        parents == IF values[9] = <<>> THEN <<>> ELSE str_split(values[9], " ")
    IN [commit_hash |-> values[1],
        author_name |-> values[2],
        committer_name |-> values[5],
        message |-> values[8],
        parents |-> parents,
        is_merge |-> Len(parents) > 1,
        source |-> values[10]]

(* next(commits), the unconditional skip of the first part. When           *)
(* split_stream ends without having yielded anything, next() raises        *)
(* StopIteration inside the generator, which leaves it as RuntimeError.    *)
commits_fill ==
    /\ pc \in {"first", "loop"}
    /\ parts = <<>>
    /\ split_stream
    /\ UNCHANGED <<out, warned, pc>>

commits_skip_first ==
    /\ pc = "first"
    /\ parts # <<>>
    /\ parts' = Tail(parts)
    /\ pc' = "loop"
    /\ UNCHANGED <<f, sep, chunk_size, pos, buffer, exhausted, out, warned>>

commits_first_missing ==
    /\ pc = "first"
    /\ parts = <<>>
    /\ exhausted
    /\ pc' = "RuntimeError"
    /\ UNCHANGED <<f, sep, chunk_size, pos, buffer, exhausted, parts, out, warned>>

(* The body of `for commit in commits`: the record is decoded and yielded, *)
(* or, on any exception, warned about and skipped.                         *)
commits_record ==
    /\ pc = "loop"
    /\ parts # <<>>
    /\ LET record == Head(parts) IN
        IF decode_raises(record)
        THEN /\ warned' = Append(warned, record)
             /\ out' = out
        ELSE /\ out' = Append(out, decode(record))
             /\ warned' = warned
    /\ parts' = Tail(parts)
    /\ UNCHANGED <<f, sep, chunk_size, pos, buffer, exhausted, pc>>

commits_end ==
    /\ pc = "loop"
    /\ parts = <<>>
    /\ exhausted
    /\ pc' = "done"
    /\ UNCHANGED <<f, sep, chunk_size, pos, buffer, exhausted, parts, out, warned>>

(* What `git log --pretty=format:<RS>%H<US>...%S<US>` writes for one       *)
(* commit, after the RS.                                                   *)
LogRecord(h, ad, cd, msg, par) ==
    <<h, UNIT_SEPARATOR, "n", UNIT_SEPARATOR, "e", UNIT_SEPARATOR>> \o ad
    \o <<UNIT_SEPARATOR, "n", UNIT_SEPARATOR, "e", UNIT_SEPARATOR>> \o cd
    \o <<UNIT_SEPARATOR>> \o msg \o <<UNIT_SEPARATOR>> \o par
    \o <<UNIT_SEPARATOR, "s", UNIT_SEPARATOR>>

(* The records the streams of the model are made of: well-formed ones of   *)
(* several lengths (root, one parent, merge), one with a date that does    *)
(* not parse, one cut short, one whose message holds a unit separator.     *)
LogRecords ==
    {LogRecord("h1", <<"d">>, <<"d">>, <<>>, <<>>),
     LogRecord("h2", <<"d">>, <<"d">>, <<"m">>, <<"p">>),
     LogRecord("h1", <<"d">>, <<"d">>, <<"m", "m">>, <<"p", " ", "p">>),
     LogRecord("h2", <<"x">>, <<"d">>, <<"m">>, <<"p">>),
     <<"h1", UNIT_SEPARATOR, "n">>,
     LogRecord("h2", <<"d">>, <<"d">>, <<"m", UNIT_SEPARATOR, "m">>, <<>>)}

RECURSIVE LogStream(_)
LogStream(records) ==
    IF records = <<>> THEN <<>>
    ELSE <<RECORD_SEPARATOR>> \o records[1] \o LogStream(Tail(records))

InitCommits ==
    /\ \E records \in UNION {[1..k -> LogRecords] : k \in 0..MaxCommits} : f = LogStream(records)
    /\ sep = RECORD_SEPARATOR
    /\ chunk_size = COMMITS_CHUNK_SIZE
    /\ pos = 0
    /\ buffer = <<>>
    /\ exhausted = FALSE
    /\ parts = <<>>
    /\ out = <<>>
    /\ warned = <<>>
    /\ pc = "first"
    /\ FacadeIdle
    /\ RunIdle
    /\ ParseIdle

NextCommits ==
    \/ commits_fill /\ UNCHANGED <<facadeVars, runVars, parseVars>>
    \/ commits_skip_first /\ UNCHANGED <<facadeVars, runVars, parseVars>>
    \/ commits_first_missing /\ UNCHANGED <<facadeVars, runVars, parseVars>>
    \/ commits_record /\ UNCHANGED <<facadeVars, runVars, parseVars>>
    \/ commits_end /\ UNCHANGED <<facadeVars, runVars, parseVars>>

SpecCommits == InitCommits /\ [][NextCommits]_vars

(* C30 as stated: on a log with no output at all parse_commits ends       *)
(* without an error, having yielded no record.                             *)
C30_Original ==
    f = <<>> => (pc # "RuntimeError" /\ out = <<>>)

(* The records of a log stream: what stands after each RS. *)
StreamRecords(stream) ==
    IF stream = <<>> THEN <<>> ELSE Tail(str_split(stream, RECORD_SEPARATOR))

RECURSIVE DecodeAll(_)
DecodeAll(records) ==
    IF records = <<>> THEN <<>>
    ELSE IF decode_raises(records[1]) THEN DecodeAll(Tail(records))
    ELSE <<decode(records[1])>> \o DecodeAll(Tail(records))

(* C10 as stated: a record of the stream whose decoding raises gives a     *)
(* warning and no Commit, every other record of the stream is emitted, in  *)
(* stream order, and the iterator is never aborted: when the iterator      *)
(* ends, the Commits emitted are those of the records that decode, and the *)
(* warnings are those of the records that do not.                          *)
C10_Original ==
    pc = "done" =>
        /\ out = DecodeAll(StreamRecords(f))
        /\ warned = SelectSeq(StreamRecords(f), decode_raises)

(* What git log writes for a commit (no parents) whose message is          *)
(* "m<US>m", and the Commit that stands for it.                            *)
USMessageRecord ==
    LogRecord("h2", <<"d">>, <<"d">>, <<"m", UNIT_SEPARATOR, "m">>, <<>>)

(* C11 as stated: a commit whose message holds the unit separator verbatim *)
(* is decoded as a well-formed record. When the log's first record (which  *)
(* always lies within the first chunk) is such a commit, the first Commit  *)
(* emitted is that commit, with hash, author, committer, parents and       *)
(* source taken from the right positions.                                  *)
C11_Original ==
    (pc = "done" /\ f # <<>> /\ Head(StreamRecords(f)) = USMessageRecord) =>
        /\ out # <<>>
        /\ out[1].commit_hash = "h2"
        /\ out[1].author_name = "n"
        /\ out[1].committer_name = "n"
        /\ out[1].parents = <<>>
        /\ out[1].source = <<"s">>

(* C14: every emitted Commit has is_merge exactly when it has more than    *)
(* one parent, and a record that decodes and whose parents field is empty  *)
(* is emitted, with parents the empty list (not a list holding the empty   *)
(* string) and is_merge false.                                             *)
C14_MergeIffParents ==
    /\ [](\A i \in 1..Len(out) : out[i].is_merge <=> Len(out[i].parents) > 1)
    /\ [][(/\ commits_record
           /\ ~decode_raises(Head(parts))
           /\ str_split(Head(parts), UNIT_SEPARATOR)[9] = <<>>)
          => (/\ Len(out') = Len(out) + 1
              /\ out'[Len(out')].parents = <<>>
              /\ out'[Len(out')].is_merge = FALSE)]_vars

(* A root commit and a merge commit have both been emitted. *)
C14_Witness ==
    /\ pc = "done"
    /\ \E i \in 1..Len(out) : out[i].parents = <<>> /\ ~out[i].is_merge
    /\ \E i \in 1..Len(out) : Len(out[i].parents) = 2 /\ out[i].is_merge

-----------------------------------------------------------------------------
(* SpecFileMods: extract_filemods, the join of the numstat pass and the    *)
(* name-status pass of pipelines/file_mod_pipeline.py.                    *)
(*                                                                         *)
(* A record is what split_stream hands over for one commit: its hash and   *)
(* its lines, each line already split on tabs into items. An item is a     *)
(* sequence of characters; in a path the arrow " => " of git's rename      *)
(* spelling is the one character "=>".                                     *)

Digits == <<"0", "1", "2", "3", "4", "5", "6", "7", "8", "9">>

IsDigit(c) == \E d \in 1..10 : Digits[d] = c

(* int(s) raises ValueError unless s is a non-empty run of digits. *)
int_raises(s) ==
    \/ s = <<>>
    \/ \E i \in 1..Len(s) : ~IsDigit(s[i])

RECURSIVE int(_)
int(s) ==
    IF s = <<>> THEN 0
    ELSE 10 * int(SubSeq(s, 1, Len(s) - 1)) + ((CHOOSE d \in 1..10 : Digits[d] = s[Len(s)]) - 1)

(* xxh64_hexdigest(US.join(args)): the digest is a function of the joined  *)
(* string; the model takes the joined string itself for the digest, that   *)
(* is, 64-bit collisions of different strings are left out.                *)
fast_hash_64(args) ==
    str_join(args, UNIT_SEPARATOR)

(* str.replace('//', '/') *)
RECURSIVE collapse_slashes(_)
collapse_slashes(s) ==
    IF Len(s) < 2 THEN s
    ELSE IF s[1] = "/" /\ s[2] = "/" THEN <<"/">> \o collapse_slashes(SubSeq(s, 3, Len(s)))
    ELSE <<s[1]>> \o collapse_slashes(Tail(s))

IndexOf(s, c) == CHOOSE i \in 1..Len(s) : s[i] = c /\ \A k \in 1..(i - 1) : s[k] # c

LastIndexOf(s, c) == CHOOSE i \in 1..Len(s) : s[i] = c /\ \A k \in (i + 1)..Len(s) : s[k] # c

(* NUMSTAT_PATH_A_RGX.sub and NUMSTAT_PATH_B_RGX.sub with the replacement   *)
(* \1. Both patterns are: an opening brace, anything, the arrow, anything, *)
(* a closing brace; the group is the first anything (side a) or the second *)
(* (side b). The match starts at the leftmost "{" and, every "anything"    *)
(* being greedy, runs to the last "}"; the arrow it takes is the last one  *)
(* that has a "}" after it. The matched span is replaced by the group. An  *)
(* expression the pattern does not match is returned unchanged.            *)
brace_sub(file_expr, side) ==
    IF ~(\E i, j, k \in 1..Len(file_expr) : i < j /\ j < k /\ file_expr[i] = "{" /\ file_expr[j] = "=>" /\ file_expr[k] = "}")
    THEN file_expr
    ELSE LET i == IndexOf(file_expr, "{")
             k == LastIndexOf(file_expr, "}")
             j == CHOOSE j1 \in (i + 1)..(k - 1) :
                    /\ file_expr[j1] = "=>"
                    /\ \A j2 \in (j1 + 1)..(k - 1) : file_expr[j2] # "=>"
             half == IF side = "a" THEN SubSeq(file_expr, i + 1, j - 1) ELSE SubSeq(file_expr, j + 1, k - 1)
         IN SubSeq(file_expr, 1, i - 1) \o half \o SubSeq(file_expr, k + 1, Len(file_expr))

(* Lines 198-212 of parse_numstats: path_a and path_b from the path        *)
(* expression of a numstat line.                                           *)
numstat_paths(file_expr) ==
    LET braces == \E i \in 1..Len(file_expr) : file_expr[i] = "{"
        paths == str_split(file_expr, "=>")
        path_a == IF braces THEN collapse_slashes(brace_sub(file_expr, "a")) ELSE paths[1]
        path_b == IF braces THEN collapse_slashes(brace_sub(file_expr, "b"))
                  ELSE IF Len(paths) > 1 THEN paths[2] ELSE file_expr
    IN <<path_a, path_b>>

(* The body of parse_numstats' loop over the lines of a record. *)
numstat_line_raises(items) ==
    \/ Len(items) < 3
    \/ (items[1] # <<"-">> /\ int_raises(items[1]))
    \/ (items[2] # <<"-">> /\ int_raises(items[2]))

parse_numstat_line(commit_hash, items) ==
    LET lines_added == IF items[1] = <<"-">> THEN 0 ELSE int(items[1])
        lines_deleted == IF items[2] = <<"-">> THEN 0 ELSE int(items[2])
        paths == numstat_paths(items[3])
    IN [filemod_id |-> fast_hash_64(<<commit_hash, paths[1], paths[2]>>),
        lines_added |-> lines_added,
        lines_deleted |-> lines_deleted]

(* The body of parse_name_statuses' loop over the lines of a record. *)
name_status_line_raises(items) ==
    \/ items = <<>>
    \/ items[1] = <<>>
    \/ IF items[1][1] \in {"R", "C"}
       THEN int_raises(Tail(items[1])) \/ Len(items) < 3
       ELSE Len(items) < 2

(* The same body with the similarity read from the status token for every  *)
(* change type, 0 when the token holds no digits.                          *)
parse_name_status_line_scored(commit_hash, items) ==
    LET change_type == items[1][1]
        renamed == change_type \in {"R", "C"}
        similarity == IF int_raises(Tail(items[1])) THEN 0 ELSE int(Tail(items[1]))
        path_b == IF renamed THEN items[3] ELSE items[2]
        path_a == IF renamed THEN items[2] ELSE path_b
    IN [commit_hash |-> commit_hash,
        path_a |-> path_a,
        path_b |-> path_b,
        filemod_id |-> fast_hash_64(<<commit_hash, path_a, path_b>>),
        change_type |-> change_type,
        similarity |-> similarity]

parse_name_status_line(commit_hash, items) ==
    LET change_type == items[1][1]
        renamed == change_type \in {"R", "C"}
        similarity == IF renamed THEN int(Tail(items[1])) ELSE 100
        path_b == IF renamed THEN items[3] ELSE items[2]
        path_a == IF renamed THEN items[2] ELSE path_b
    IN [commit_hash |-> commit_hash,
        path_a |-> path_a,
        path_b |-> path_b,
        filemod_id |-> fast_hash_64(<<commit_hash, path_a, path_b>>),
        change_type |-> change_type,
        similarity |-> similarity]

(* `name_status['filemod_id'] in index` *)
in_index(idx, id) == \E n \in idx : n.filemod_id = id

(* FileMod(...) with the two line counts of the numstat dict exchanged. *)
FileMod_swapped(name_status, numstat) ==
    [commit_hash |-> name_status.commit_hash,
     path_a |-> name_status.path_a,
     path_b |-> name_status.path_b,
     filemod_id |-> name_status.filemod_id,
     change_type |-> name_status.change_type,
     similarity |-> name_status.similarity,
     lines_added |-> numstat.lines_deleted,
     lines_deleted |-> numstat.lines_added]

(* FileMod(...) of extract_filemods *)
FileMod(name_status, numstat) ==
    [commit_hash |-> name_status.commit_hash,
     path_a |-> name_status.path_a,
     path_b |-> name_status.path_b,
     filemod_id |-> name_status.filemod_id,
     change_type |-> name_status.change_type,
     similarity |-> name_status.similarity,
     lines_added |-> numstat.lines_added,
     lines_deleted |-> numstat.lines_deleted]

(* One step of the dict comprehension over parse_numstats(log): the next   *)
(* line of the record at hand goes into the index (a later entry for an id *)
(* replaces an earlier one); a line that raises ends its record with a     *)
(* warning; a record without lines left is done.                           *)
numstat_step ==
    /\ fm_pc = "numstat"
    /\ numstat_log # <<>>
    /\ LET rec == Head(numstat_log) IN
        IF rec.lines = <<>>
        THEN /\ numstat_log' = Tail(numstat_log)
             /\ UNCHANGED <<index, fm_warned>>
        ELSE IF numstat_line_raises(Head(rec.lines))
        THEN /\ numstat_log' = Tail(numstat_log)
             /\ fm_warned' = Append(fm_warned, rec.commit_hash)
             /\ UNCHANGED index
        ELSE LET n == parse_numstat_line(rec.commit_hash, Head(rec.lines)) IN
             /\ index' = {m \in index : m.filemod_id # n.filemod_id} \cup {n}
             /\ numstat_log' = <<[rec EXCEPT !.lines = Tail(rec.lines)]>> \o Tail(numstat_log)
             /\ UNCHANGED fm_warned
    /\ UNCHANGED <<name_status_log, name_statuses, filemods, fm_pc>>

(* The numstat log is exhausted: its scope is left, the name-status log is *)
(* run.                                                                    *)
numstat_end ==
    /\ fm_pc = "numstat"
    /\ numstat_log = <<>>
    /\ fm_pc' = "name_status"
    /\ UNCHANGED <<numstat_log, index, name_status_log, name_statuses, filemods, fm_warned>>

(* One step of `for name_status in parse_name_statuses(log)`: the next     *)
(* line is parsed and, when its id is in the index, yielded as a FileMod.  *)
name_status_step ==
    /\ fm_pc = "name_status"
    /\ name_status_log # <<>>
    /\ LET rec == Head(name_status_log) IN
        IF rec.lines = <<>>
        THEN /\ name_status_log' = Tail(name_status_log)
             /\ UNCHANGED <<name_statuses, filemods, fm_warned>>
        ELSE IF name_status_line_raises(Head(rec.lines))
        THEN /\ name_status_log' = Tail(name_status_log)
             /\ fm_warned' = Append(fm_warned, rec.commit_hash)
             /\ UNCHANGED <<name_statuses, filemods>>
        ELSE LET name_status == parse_name_status_line(rec.commit_hash, Head(rec.lines)) IN
             /\ name_statuses' = Append(name_statuses, name_status)
             /\ filemods' = IF in_index(index, name_status.filemod_id)
                            THEN Append(filemods, FileMod(name_status, CHOOSE n \in index : n.filemod_id = name_status.filemod_id))
                            ELSE filemods
             /\ name_status_log' = <<[rec EXCEPT !.lines = Tail(rec.lines)]>> \o Tail(name_status_log)
             /\ UNCHANGED fm_warned
    /\ UNCHANGED <<numstat_log, index, fm_pc>>

name_status_end ==
    /\ fm_pc = "name_status"
    /\ name_status_log = <<>>
    /\ fm_pc' = "done"
    /\ UNCHANGED <<numstat_log, index, name_status_log, name_statuses, filemods, fm_warned>>

(* Lines of `git log --numstat` and of `git log --name-status`: plain      *)
(* changes, renames in arrow and in brace spelling, a binary file, and     *)
(* lines that do not parse.                                                *)
NumstatLines ==
    {<<<<"1">>, <<"0">>, <<"a">>>>,
     <<<<"1", "2">>, <<"3">>, <<"b">>>>,
     <<<<"-">>, <<"-">>, <<"b">>>>,
     <<<<"2">>, <<"1">>, <<"a", "=>", "b">>>>,
     <<<<"0">>, <<"0">>, <<"d", "/", "{", "=>", "b", "}", "/", "a">>>>,
     <<<<"x">>, <<"0">>, <<"a">>>>}

NameStatusLines ==
    {<<<<"M">>, <<"a">>>>,
     <<<<"A">>, <<"b">>>>,
     <<<<"T">>, <<"b">>>>,
     <<<<"U">>, <<"a">>>>,
     <<<<"R", "0", "9", "0">>, <<"a">>, <<"b">>>>,
     <<<<"C", "0", "7", "5">>, <<"a">>, <<"b">>>>,
     <<<<"R", "1", "0", "0">>, <<"d", "/", "a">>, <<"d", "/", "b", "/", "a">>>>,
     <<<<"R">>, <<"a">>, <<"b">>>>}

SeqsUpTo(S, n) == UNION {[1..k -> S] : k \in 0..n}

InitFileMods ==
    /\ \E lines \in SeqsUpTo(NumstatLines, MaxNumstatLines) :
         numstat_log = <<[commit_hash |-> <<"h1">>, lines |-> lines],
                         [commit_hash |-> <<"h2">>, lines |-> <<<<<<"1">>, <<"1">>, <<"a">>>>>>]>>
    /\ \E lines \in SeqsUpTo(NameStatusLines, MaxNameStatusLines) :
         name_status_log = <<[commit_hash |-> <<"h1">>, lines |-> lines],
                             [commit_hash |-> <<"h2">>, lines |-> <<<<<<"M">>, <<"a">>>>>>]>>
    /\ index = {}
    /\ name_statuses = <<>>
    /\ filemods = <<>>
    /\ fm_warned = <<>>
    /\ fm_pc = "numstat"
    /\ FacadeIdle
    /\ RunIdle
    /\ StreamIdle
    /\ DiffIdle
    /\ TimestampIdle
    /\ CleanupIdle
    /\ ParIdle
    /\ LateIdle

NextFileMods ==
    \/ numstat_step /\ UNCHANGED <<facadeVars, runVars, streamVars, diffVars, tsVars, cleanupVars, parVars, lateVars>>
    \/ numstat_end /\ UNCHANGED <<facadeVars, runVars, streamVars, diffVars, tsVars, cleanupVars, parVars, lateVars>>
    \/ name_status_step /\ UNCHANGED <<facadeVars, runVars, streamVars, diffVars, tsVars, cleanupVars, parVars, lateVars>>
    \/ name_status_end /\ UNCHANGED <<facadeVars, runVars, streamVars, diffVars, tsVars, cleanupVars, parVars, lateVars>>

SpecFileMods == InitFileMods /\ [][NextFileMods]_vars

(* The join of a sequence of name-status dicts with an index. *)
RECURSIVE Joined(_, _)
Joined(entries, idx) ==
    IF entries = <<>> THEN <<>>
    ELSE LET rest == Joined(SubSeq(entries, 1, Len(entries) - 1), idx)
             e == entries[Len(entries)]
         IN IF \E n \in idx : n.filemod_id = e.filemod_id
            THEN LET n == CHOOSE m \in idx : m.filemod_id = e.filemod_id
                 IN Append(rest, [commit_hash |-> e.commit_hash, path_a |-> e.path_a, path_b |-> e.path_b,
                                  filemod_id |-> e.filemod_id, change_type |-> e.change_type,
                                  similarity |-> e.similarity,
                                  lines_added |-> n.lines_added, lines_deleted |-> n.lines_deleted])
            ELSE rest

(* C12: the FileMods emitted are exactly the name-status entries parsed so *)
(* far whose filemod_id is in the numstat index, in name-status order,     *)
(* each with the line counts the index holds for its id; entries without a *)
(* match are skipped and entries only the numstat pass has are never       *)
(* emitted; and nothing is emitted, nor any name-status entry parsed,      *)
(* before the numstat pass has been read to its end.                       *)
C12_JoinOnNumstatIndex ==
    /\ filemods = Joined(name_statuses, index)
    /\ \A i \in 1..Len(filemods) : \E j \in 1..Len(name_statuses) : name_statuses[j].filemod_id = filemods[i].filemod_id
    /\ (fm_pc = "numstat" => (filemods = <<>> /\ name_statuses = <<>>))
    /\ (filemods # <<>> => numstat_log = <<>>)

(* The pass has ended having emitted a joined entry, skipped an entry      *)
(* without a match, and left a numstat-only entry unemitted.               *)
C12_Witness ==
    /\ fm_pc = "done"
    /\ \E j \in 1..Len(name_statuses) : ~in_index(index, name_statuses[j].filemod_id)
    /\ \E n \in index : \A j \in 1..Len(name_statuses) : name_statuses[j].filemod_id # n.filemod_id
    /\ \E i \in 1..Len(filemods) : filemods[i].commit_hash = <<"h2">> /\ filemods[i].lines_added = 1

(* C15: every emitted FileMod whose change type is not R or C has          *)
(* path_a = path_b and similarity 100, the types T and U included.         *)
C15_PlainChangesKeepPath ==
    \A i \in 1..Len(filemods) :
        filemods[i].change_type \notin {"R", "C"} =>
            (filemods[i].path_a = filemods[i].path_b /\ filemods[i].similarity = 100)

(* A FileMod of the pass-through type T has been emitted. *)
C15_Witness ==
    \E i \in 1..Len(filemods) : filemods[i].change_type = "T" /\ filemods[i].path_a = filemods[i].path_b

(* C21 as stated: a commit record with a line that does not parse is       *)
(* skipped as a whole. When the pass has ended, no emitted FileMod belongs *)
(* to a commit whose record was warned about, and the FileMod of the later *)
(* commit h2 has been emitted.                                             *)
C21_Original ==
    fm_pc = "done" =>
        /\ \A i \in 1..Len(fm_warned) : \A j \in 1..Len(filemods) : filemods[j].commit_hash # fm_warned[i]
        /\ \E j \in 1..Len(filemods) : filemods[j].commit_hash = <<"h2">>

-----------------------------------------------------------------------------
(* SpecDiffs: parse_diffs of pipelines/diff_pipeline.py on one file piece  *)
(* with one hunk, next to the name-status line git writes for the same     *)
(* change.                                                                 *)

(* What git writes for a path (quote_c_style, core.quotePath at its        *)
(* default): a path holding a byte outside printable ASCII is put in       *)
(* double quotes with that byte as an octal escape; any other path is      *)
(* written as it is. "é" stands for such a byte, "\\303\\251" for its      *)
(* escape.                                                                 *)
git_quote(path) ==
    IF \E i \in 1..Len(path) : path[i] = "é"
    THEN <<"\"">> \o [i \in 1..Len(path) |-> IF path[i] = "é" THEN "\\303\\251" ELSE path[i]] \o <<"\"">>
    ELSE path

(* The rest of the `diff --git` line of a change. *)
DiffHeader(change) ==
    <<" ">> \o git_quote(<<"a", "/">> \o change.path_a) \o <<" ">> \o git_quote(<<"b", "/">> \o change.path_b)

(* The items of the name-status line of a change. *)
NameStatusItems(change) ==
    IF change.path_a = change.path_b
    THEN <<<<"M">>, git_quote(change.path_a)>>
    ELSE <<<<"R", "0", "9", "0">>, git_quote(change.path_a), git_quote(change.path_b)>>

(* The hunk's lines as git writes them after the hunk header line: marker, *)
(* text, newline.                                                          *)
RECURSIVE HunkContent(_)
HunkContent(hunk) ==
    IF hunk = <<>> THEN <<>>
    ELSE <<hunk[1].marker>> \o hunk[1].text \o <<"\n">> \o HunkContent(Tail(hunk))

(* FILEPATHS_RGX.search(header) with the pattern "?a/(.+)"? "?b/(.+)"? :   *)
(* the leftmost a/, the longest first group after which the rest of the    *)
(* pattern still matches, the second group running to the end of the line  *)
(* (both .+ are greedy and each "? may match nothing). MatchAt(h, s, j)    *)
(* says whether the pattern matches with a/ at s and group 1 ending at j;  *)
(* Group2Start gives where group 2 then starts.                            *)
Group2Start(h, j) ==
    LET q1 == IF j + 1 <= Len(h) /\ h[j + 1] = "\"" THEN 1 ELSE 0
        u == j + q1 + 2
        q2 == IF u <= Len(h) /\ h[u] = "\"" THEN 1 ELSE 0
    IN u + q2 + 2

MatchAt(h, s, j) ==
    LET q1 == IF j + 1 <= Len(h) /\ h[j + 1] = "\"" THEN 1 ELSE 0
        g == Group2Start(h, j)
    IN /\ s + 2 <= j
       /\ g <= Len(h)
       /\ h[s] = "a"
       /\ h[s + 1] = "/"
       /\ h[j + q1 + 1] = " "
       /\ h[g - 2] = "b"
       /\ h[g - 1] = "/"

FILEPATHS_RGX_search(h) ==
    IF ~(\E s, j \in 1..Len(h) : MatchAt(h, s, j)) THEN <<>>
    ELSE LET s == CHOOSE s1 \in 1..Len(h) :
                    /\ \E j \in 1..Len(h) : MatchAt(h, s1, j)
                    /\ \A s2 \in 1..(s1 - 1) : \A j \in 1..Len(h) : ~MatchAt(h, s2, j)
             j == CHOOSE j1 \in 1..Len(h) :
                    /\ MatchAt(h, s, j1)
                    /\ \A j2 \in (j1 + 1)..Len(h) : ~MatchAt(h, s, j2)
         IN <<SubSeq(h, s + 2, j), SubSeq(h, Group2Start(h, j), Len(h))>>

(* str.splitlines(): a line ends at a newline and also at a form feed (and *)
(* at the other boundaries of Python's universal line splitting); there is *)
(* no empty last line.                                                     *)
LineBoundaries == {"\n", "\f"}

RECURSIVE str_splitlines(_)
str_splitlines(s) ==
    IF s = <<>> THEN <<>>
    ELSE IF \A i \in 1..Len(s) : s[i] \notin LineBoundaries THEN <<s>>
    ELSE LET i == CHOOSE k \in 1..Len(s) : s[k] \in LineBoundaries /\ \A m \in 1..(k - 1) : s[m] \notin LineBoundaries
         IN <<SubSeq(s, 1, i - 1)>> \o str_splitlines(SubSeq(s, i + 1, Len(s)))

(* line.startswith(c) *)
startswith(line, c) == line # <<>> /\ line[1] = c

(* The file piece's first line: the paths are taken from it and the hunk's *)
(* content is split into lines. A header the pattern does not match makes  *)
(* .groups() raise: the commit's record is skipped with a warning.         *)
diff_header ==
    /\ diff_pc = "header"
    /\ LET groups == FILEPATHS_RGX_search(DiffHeader(diff_change)) IN
        IF groups = <<>>
        THEN /\ diff_pc' = "skipped"
             /\ UNCHANGED <<diff_paths, diff_lines>>
        ELSE /\ diff_paths' = groups
             /\ diff_lines' = str_splitlines(HunkContent(diff_hunk))
             /\ diff_pc' = "lines"
    /\ UNCHANGED <<diff_change, diff_hunk, additions, deletions, diffs>>

(* `for line in lines` *)
diff_line ==
    /\ diff_pc = "lines"
    /\ diff_lines # <<>>
    /\ LET line == Head(diff_lines) IN
        /\ additions' = IF startswith(line, "+") THEN Append(additions, Tail(line)) ELSE additions
        /\ deletions' = IF ~startswith(line, "+") /\ startswith(line, "-") THEN Append(deletions, Tail(line)) ELSE deletions
    /\ diff_lines' = Tail(diff_lines)
    /\ UNCHANGED <<diff_change, diff_hunk, diff_paths, diffs, diff_pc>>

(* `yield Diff(...)` (the hunk header's four numbers left out) *)
diff_yield ==
    /\ diff_pc = "lines"
    /\ diff_lines = <<>>
    /\ diffs' = Append(diffs, [commit_hash |-> <<"h1">>,
                               path_a |-> diff_paths[1],
                               path_b |-> diff_paths[2],
                               filemod_id |-> fast_hash_64(<<<<"h1">>, diff_paths[1], diff_paths[2]>>),
                               lines_added |-> Len(additions),
                               lines_deleted |-> Len(deletions),
                               additions |-> additions,
                               deletions |-> deletions])
    /\ diff_pc' = "done"
    /\ UNCHANGED <<diff_change, diff_hunk, diff_paths, diff_lines, additions, deletions>>

PathAlphabet == {"x", "é"}

LineAlphabet == {"x", "-", "\f"}

(* The changes of the model: a file modified in place, under every path,   *)
(* and a rename with an edit between two paths of one character.           *)
Changes ==
    {[path_a |-> p, path_b |-> p] : p \in UNION {[1..k -> PathAlphabet] : k \in 1..MaxPathLen}}
    \cup {[path_a |-> <<x>>, path_b |-> <<y>>] : x, y \in PathAlphabet}

HunkLines ==
    {[marker |-> m, text |-> t] : m \in {"+", "-"}, t \in UNION {[1..k -> LineAlphabet] : k \in 0..MaxLineLen}}

InitDiffs ==
    /\ diff_change \in Changes
    /\ diff_hunk \in UNION {[1..k -> HunkLines] : k \in 1..MaxHunkLines}
    /\ diff_paths = <<>>
    /\ diff_lines = <<>>
    /\ additions = <<>>
    /\ deletions = <<>>
    /\ diffs = <<>>
    /\ diff_pc = "header"
    /\ FacadeIdle
    /\ RunIdle
    /\ StreamIdle
    /\ FileModIdle
    /\ TimestampIdle
    /\ CleanupIdle
    /\ ParIdle
    /\ LateIdle

NextDiffs ==
    \/ diff_header /\ UNCHANGED <<facadeVars, runVars, streamVars, fileModVars, tsVars, cleanupVars, parVars, lateVars>>
    \/ diff_line /\ UNCHANGED <<facadeVars, runVars, streamVars, fileModVars, tsVars, cleanupVars, parVars, lateVars>>
    \/ diff_yield /\ UNCHANGED <<facadeVars, runVars, streamVars, fileModVars, tsVars, cleanupVars, parVars, lateVars>>

SpecDiffs == InitDiffs /\ [][NextDiffs]_vars

(* C13 as stated: the filemod_id of every Diff, with the paths taken from  *)
(* the `diff --git` header (quoted or not, rename or not), equals the      *)
(* filemod_id of the FileMod of the same change, with the paths taken from *)
(* its name-status line.                                                   *)
C13_Original ==
    \A i \in 1..Len(diffs) :
        diffs[i].filemod_id = parse_name_status_line(<<"h1">>, NameStatusItems(diff_change)).filemod_id

(* The texts of the hunk's lines that carry a marker, in hunk order. *)
RECURSIVE Marked(_, _)
Marked(hunk, m) ==
    IF hunk = <<>> THEN <<>>
    ELSE (IF hunk[1].marker = m THEN <<hunk[1].text>> ELSE <<>>) \o Marked(Tail(hunk), m)

(* C16 as stated: every emitted Diff has |additions| = lines_added and     *)
(* |deletions| = lines_deleted, its additions are exactly the hunk's lines *)
(* that start with '+' and its deletions exactly those that start with     *)
(* '-', each without its marker and in hunk order.                         *)
C16_Original ==
    \A i \in 1..Len(diffs) :
        /\ Len(diffs[i].additions) = diffs[i].lines_added
        /\ Len(diffs[i].deletions) = diffs[i].lines_deleted
        /\ diffs[i].additions = Marked(diff_hunk, "+")
        /\ diffs[i].deletions = Marked(diff_hunk, "-")

-----------------------------------------------------------------------------
(* SpecTimestamp: parse_git_timestamp of pipelines/utils.py.               *)

Fmt2(n) == <<Digits[(n \div 10) + 1], Digits[(n % 10) + 1]>>

(* What `git log --date=iso` writes for a wall-clock time of March 2024    *)
(* and a zone offset: YYYY-MM-DD HH:MM:SS +/-HHMM.                         *)
GitIsoDate(w) ==
    <<"2", "0", "2", "4", "-", "0", "3", "-">> \o Fmt2(w.da) \o <<" ">>
    \o Fmt2(w.hr) \o <<":">> \o Fmt2(w.mi) \o <<":">> \o Fmt2(w.se)
    \o <<" ", w.sign>> \o Fmt2(w.oh) \o Fmt2(w.om)

(* timedelta(hours=..., minutes=...), in seconds *)
timedelta(hours, minutes) == hours * 3600 + minutes * 60

(* datetime - timedelta, for results that stay within the month *)
datetime_sub(dt, delta) ==
    LET secs == ((dt.da * 24 + dt.hr) * 60 + dt.mi) * 60 + dt.se - delta
    IN [yr |-> dt.yr, mo |-> dt.mo,
        da |-> secs \div 86400,
        hr |-> (secs % 86400) \div 3600,
        mi |-> (secs % 3600) \div 60,
        se |-> secs % 60]

(* parse_git_timestamp with the sign of the offset put on its hours only. *)
parse_git_timestamp_hours_signed(s) ==
    LET local == [yr |-> int(SubSeq(s, 1, 4)), mo |-> int(SubSeq(s, 6, 7)), da |-> int(SubSeq(s, 9, 10)),
                  hr |-> int(SubSeq(s, 12, 13)), mi |-> int(SubSeq(s, 15, 16)), se |-> int(SubSeq(s, 18, 19))]
        offset_sign == IF s[21] = "+" THEN 1 ELSE -1
        offset_hours == int(SubSeq(s, 22, 23))
        offset_minutes == int(SubSeq(s, 24, 25))
        offset == timedelta(offset_sign * offset_hours, offset_minutes)
    IN <<datetime_sub(local, offset), local>>

parse_git_timestamp(s) ==
    LET local == [yr |-> int(SubSeq(s, 1, 4)), mo |-> int(SubSeq(s, 6, 7)), da |-> int(SubSeq(s, 9, 10)),
                  hr |-> int(SubSeq(s, 12, 13)), mi |-> int(SubSeq(s, 15, 16)), se |-> int(SubSeq(s, 18, 19))]
        offset_sign == IF s[21] = "+" THEN 1 ELSE -1
        offset_hours == int(SubSeq(s, 22, 23))
        offset_minutes == int(SubSeq(s, 24, 25))
        offset == timedelta(offset_sign * offset_hours, offset_sign * offset_minutes)
    IN <<datetime_sub(local, offset), local>>

timestamp_parse ==
    /\ ts_pc = "call"
    /\ ts_result' = parse_git_timestamp(GitIsoDate(ts_wall))
    /\ ts_pc' = "returned"
    /\ UNCHANGED ts_wall

WallTimes ==
    [da : {2, 15}, hr : {0, 5, 23}, mi : {0, 30, 59}, se : {0, 59},
     sign : {"+", "-"}, oh : {0, 5, 14}, om : {0, 30, 45}]

InitTimestamp ==
    /\ ts_wall \in WallTimes
    /\ ts_result = <<>>
    /\ ts_pc = "call"
    /\ FacadeIdle
    /\ RunIdle
    /\ StreamIdle
    /\ FileModIdle
    /\ DiffIdle
    /\ CleanupIdle
    /\ ParIdle
    /\ LateIdle

NextTimestamp ==
    timestamp_parse /\ UNCHANGED <<facadeVars, runVars, streamVars, fileModVars, diffVars, cleanupVars, parVars, lateVars>>

SpecTimestamp == InitTimestamp /\ [][NextTimestamp]_vars

SecondsOfMonth(dt) == ((dt.da * 24 + dt.hr) * 60 + dt.mi) * 60 + dt.se

(* C17: parse_git_timestamp returns the wall-clock time as written (local) *)
(* and that time minus the offset (utc), to the second, the sign of the    *)
(* offset applying to its hours and to its minutes, also when the          *)
(* subtraction crosses a day boundary; both values are plain date-and-time *)
(* records with no zone attached.                                          *)
C17_UtcIsLocalMinusOffset ==
    ts_pc = "returned" =>
        LET utc == ts_result[1]
            local == ts_result[2]
            off == ts_wall.oh * 3600 + ts_wall.om * 60
        IN /\ local = [yr |-> 2024, mo |-> 3, da |-> ts_wall.da, hr |-> ts_wall.hr, mi |-> ts_wall.mi, se |-> ts_wall.se]
           /\ DOMAIN utc = {"yr", "mo", "da", "hr", "mi", "se"}
           /\ utc.yr = 2024 /\ utc.mo = 3
           /\ utc.hr \in 0..23 /\ utc.mi \in 0..59 /\ utc.se \in 0..59
           /\ SecondsOfMonth(utc) = IF ts_wall.sign = "+" THEN SecondsOfMonth(local) - off ELSE SecondsOfMonth(local) + off

(* 23:30:59 -0530 has been parsed: utc is 05:00:59 of the next day. *)
C17_Witness ==
    /\ ts_pc = "returned"
    /\ ts_wall.sign = "-" /\ ts_wall.oh = 5 /\ ts_wall.om = 30
    /\ ts_wall.hr = 23 /\ ts_wall.mi = 30 /\ ts_wall.se = 59
    /\ ts_result[1].da = ts_wall.da + 1
    /\ ts_result[1].hr = 5 /\ ts_result[1].mi = 0 /\ ts_result[1].se = 59

-----------------------------------------------------------------------------
(* SpecCleanup: the temporary directory of the system, a process that      *)
(* holds a Repo scope (git/cloning.py) and may be killed within it, and    *)
(* remove_residual_resources of utils/cleanup.py run by another process,   *)
(* at any time.                                                            *)
(* A name is a sequence of pieces; "diffhouse" and "_" are pieces.         *)

PACKAGE_NAME == <<"diffhouse">>

(* f'{PACKAGE_NAME}_' *)
ResidualPrefix == PACKAGE_NAME \o <<"_">>

(* path.name.startswith(PACKAGE_NAME): the prefix without its underscore. *)
is_residual_loose(name) ==
    Len(name) >= Len(PACKAGE_NAME) /\ SubSeq(name, 1, Len(PACKAGE_NAME)) = PACKAGE_NAME

(* path.name.startswith(f'{PACKAGE_NAME}_') *)
is_residual(name) ==
    Len(name) >= Len(ResidualPrefix) /\ SubSeq(name, 1, Len(ResidualPrefix)) = ResidualPrefix

(* tempfile.TemporaryDirectory(prefix=f'{PACKAGE_NAME}_'): the name of the *)
(* directory of the clone.                                                 *)
CloneDirName == ResidualPrefix \o <<"k3f9">>

(* TempClone.__enter__: the clone's directory is made. *)
scope_enter ==
    /\ proc = "start"
    /\ tmp' = tmp \cup {[name |-> CloneDirName, kind |-> "dir"]}
    /\ proc' = "active"
    /\ UNCHANGED <<sweep_seen, sweep_todo, sweep_warned, sweep_pc, sweep_at>>

(* TempClone.__exit__: the directory is cleaned up. *)
scope_exit ==
    /\ proc = "active"
    /\ tmp' = {e \in tmp : e.name # CloneDirName}
    /\ proc' = "exited"
    /\ UNCHANGED <<sweep_seen, sweep_todo, sweep_warned, sweep_pc, sweep_at>>

(* The process is killed within the scope: no handler of it runs. *)
kill ==
    /\ proc = "active"
    /\ proc' = "killed"
    /\ UNCHANGED <<tmp, sweep_seen, sweep_todo, sweep_warned, sweep_pc, sweep_at>>

(* remove_residual_resources is called in another process: iterdir().     *)
(* Nothing in it looks at whether a scope is active; sweep_at records what *)
(* the process holding the scope was doing at that moment.                 *)
sweep_start ==
    /\ sweep_pc = "idle"
    /\ sweep_seen' = tmp
    /\ sweep_todo' = tmp
    /\ sweep_pc' = "loop"
    /\ sweep_at' = proc
    /\ UNCHANGED <<tmp, proc, sweep_warned>>

(* One pass of the loop over the entries: an entry whose name starts with  *)
(* the prefix is unlinked (a file) or removed as a tree (anything else);   *)
(* when that raises, it stays and a warning is given (an entry that is no  *)
(* longer there makes the removal raise). Any other entry is passed over.  *)
sweep_entry(path, removal_raises) ==
    /\ sweep_pc = "loop"
    /\ path \in sweep_todo
    /\ sweep_todo' = sweep_todo \ {path}
    /\ IF is_residual(path.name)
       THEN IF removal_raises \/ path \notin tmp
            THEN /\ sweep_warned' = sweep_warned \cup {path}
                 /\ tmp' = tmp
            ELSE /\ tmp' = tmp \ {path}
                 /\ sweep_warned' = sweep_warned
       ELSE UNCHANGED <<tmp, sweep_warned>>
    /\ UNCHANGED <<proc, sweep_seen, sweep_pc, sweep_at>>

sweep_end ==
    /\ sweep_pc = "loop"
    /\ sweep_todo = {}
    /\ sweep_pc' = "done"
    /\ UNCHANGED <<tmp, proc, sweep_seen, sweep_todo, sweep_warned, sweep_at>>

(* What the temporary directory may hold before the process starts: other  *)
(* programs' entries, among them names that hold the package name without  *)
(* starting with the prefix, and residue of earlier runs.                  *)
OtherEntries ==
    {[name |-> <<"pip", "_", "cache">>, kind |-> "dir"],
     [name |-> <<"diffhouse", "x">>, kind |-> "file"],
     [name |-> <<"my", "_", "diffhouse", "_">>, kind |-> "dir"],
     [name |-> <<"diffhouse", "_", "old">>, kind |-> "file"]}

InitCleanup ==
    /\ tmp \in SUBSET OtherEntries
    /\ proc = "start"
    /\ sweep_seen = {}
    /\ sweep_todo = {}
    /\ sweep_warned = {}
    /\ sweep_pc = "idle"
    /\ sweep_at = "none"
    /\ FacadeIdle
    /\ RunIdle
    /\ StreamIdle
    /\ FileModIdle
    /\ DiffIdle
    /\ TimestampIdle
    /\ ParIdle
    /\ LateIdle

NextCleanup ==
    \/ scope_enter /\ UNCHANGED <<facadeVars, runVars, streamVars, fileModVars, diffVars, tsVars, parVars, lateVars>>
    \/ scope_exit /\ UNCHANGED <<facadeVars, runVars, streamVars, fileModVars, diffVars, tsVars, parVars, lateVars>>
    \/ kill /\ UNCHANGED <<facadeVars, runVars, streamVars, fileModVars, diffVars, tsVars, parVars, lateVars>>
    \/ sweep_start /\ UNCHANGED <<facadeVars, runVars, streamVars, fileModVars, diffVars, tsVars, parVars, lateVars>>
    \/ \E path \in OtherEntries \cup {[name |-> CloneDirName, kind |-> "dir"]}, r \in BOOLEAN : sweep_entry(path, r) /\ UNCHANGED <<facadeVars, runVars, streamVars, fileModVars, diffVars, tsVars, parVars, lateVars>>
    \/ sweep_end /\ UNCHANGED <<facadeVars, runVars, streamVars, fileModVars, diffVars, tsVars, parVars, lateVars>>

SpecCleanup == InitCleanup /\ [][NextCleanup]_vars

(* A name that starts with the package tag 'diffhouse_'. *)
HasPackageTag(name) ==
    Len(name) >= 2 /\ name[1] = "diffhouse" /\ name[2] = "_"

(* C18 as stated: after the process was killed within the scope its clone  *)
(* directory is in the temporary directory, and when a sweep started       *)
(* after the process ended has run, no entry whose name starts with the    *)
(* prefix is left and every other entry is as it was.                      *)
C18_Original ==
    /\ (proc = "killed" /\ sweep_pc = "idle") => [name |-> CloneDirName, kind |-> "dir"] \in tmp
    /\ (sweep_pc = "done" /\ sweep_at \in {"exited", "killed"}) =>
        /\ \A e \in tmp : ~HasPackageTag(e.name)
        /\ \A e \in sweep_seen : ~HasPackageTag(e.name) => e \in tmp

(* C18, amended: after the process was killed within the scope its clone   *)
(* directory is in the temporary directory; when a sweep started after the *)
(* process ended has run,                                                  *)
(* every entry whose name starts with the prefix is gone, except those     *)
(* whose removal raised, each of which is still there with a warning       *)
(* given for it; every other entry is as it was, and nothing was added.    *)
C18_SweepRemovesPrefixed ==
    /\ (proc = "killed" /\ sweep_pc = "idle") => [name |-> CloneDirName, kind |-> "dir"] \in tmp
    /\ (sweep_pc = "done" /\ sweep_at \in {"exited", "killed"}) =>
        /\ \A e \in sweep_seen : HasPackageTag(e.name) => (e \in tmp <=> e \in sweep_warned)
        /\ \A e \in sweep_seen : ~HasPackageTag(e.name) => (e \in tmp /\ e \notin sweep_warned)
        /\ tmp \subseteq sweep_seen

(* The process was killed within the scope, the sweep has run and has      *)
(* removed the clone's directory, next to entries it left alone.           *)
C18_Witness ==
    /\ proc = "killed"
    /\ sweep_at = "killed"
    /\ sweep_pc = "done"
    /\ [name |-> CloneDirName, kind |-> "dir"] \in sweep_seen \ tmp
    /\ [name |-> <<"diffhouse", "x">>, kind |-> "file"] \in tmp
    /\ [name |-> <<"my", "_", "diffhouse", "_">>, kind |-> "dir"] \in tmp

(* C27 as stated: while the scope is active, whatever a sweep run by       *)
(* another process is doing, the clone's directory is in the temporary     *)
(* directory.                                                              *)
C27_Original ==
    proc = "active" => [name |-> CloneDirName, kind |-> "dir"] \in tmp

-----------------------------------------------------------------------------
(* SpecPar: two iterations over one active Repo, consumed in any           *)
(* interleaving. Every iteration is a generator of its own                 *)
(* (Extractor._extract calls the extractor function anew), whose first     *)
(* next() runs git into a spool of its own (GitCLI.run makes a             *)
(* TemporaryFile per call) and whose later next()s read on in that spool.  *)

PipelineKinds == {"commits", "branches"}

(* What the git command of a pipeline writes for the clone: its records. *)
GitOutput(repo, kind) ==
    IF kind = "commits" THEN repo.commits ELSE repo.branches

(* What a pipeline makes of one record of its spool. *)
ParseRecord(kind, rec) ==
    [entity |-> IF kind = "commits" THEN "Commit" ELSE "Branch", of |-> rec]

(* One spool for all runs. *)
spool_shared(i) == 1

(* The spool of iteration i: the TemporaryFile its GitCLI.run opened. *)
spool_of(i) == i

(* Extractor.__iter__ *)
par_iter(i, kind) ==
    /\ par_iters[i].pc = "none"
    /\ par_iters' = [par_iters EXCEPT ![i] = [kind |-> kind, pc |-> "unstarted", yielded |-> <<>>]]
    /\ UNCHANGED <<par_repo, par_spools>>

(* The first next(): the git command runs to its end into the spool. *)
par_start(i) ==
    /\ par_iters[i].pc = "unstarted"
    /\ par_spools' = [par_spools EXCEPT ![spool_of(i)] = [content |-> GitOutput(par_repo, par_iters[i].kind), pos |-> 0]]
    /\ par_iters' = [par_iters EXCEPT ![i].pc = "running"]
    /\ UNCHANGED par_repo

(* next(): the next record is read from the spool and yielded, or the      *)
(* spool is at its end and the generator returns.                          *)
par_next(i) ==
    /\ par_iters[i].pc = "running"
    /\ LET spool == par_spools[spool_of(i)] IN
        IF spool.pos < Len(spool.content)
        THEN /\ par_iters' = [par_iters EXCEPT ![i].yielded = Append(@, ParseRecord(par_iters[i].kind, spool.content[spool.pos + 1]))]
             /\ par_spools' = [par_spools EXCEPT ![spool_of(i)].pos = @ + 1]
        ELSE /\ par_iters' = [par_iters EXCEPT ![i].pc = "done"]
             /\ UNCHANGED par_spools
    /\ UNCHANGED par_repo

ParIdleIter == [kind |-> "none", pc |-> "none", yielded |-> <<>>]

ParNoSpool == [content |-> <<>>, pos |-> 0]

InitPar ==
    /\ \E cs \in SeqsUpTo({"c1", "c2"}, MaxRecs), bs \in SeqsUpTo({"b1", "b2"}, MaxRecs) :
         par_repo = [commits |-> cs, branches |-> bs]
    /\ par_spools = [i \in 1..2 |-> ParNoSpool]
    /\ par_iters = [i \in 1..2 |-> ParIdleIter]
    /\ FacadeIdle
    /\ RunIdle
    /\ StreamIdle
    /\ FileModIdle
    /\ DiffIdle
    /\ TimestampIdle
    /\ CleanupIdle
    /\ LateIdle

NextPar ==
    \/ \E i \in 1..2, kind \in PipelineKinds : par_iter(i, kind) /\ UNCHANGED <<facadeVars, runVars, streamVars, fileModVars, diffVars, tsVars, cleanupVars, lateVars>>
    \/ \E i \in 1..2 : par_start(i) /\ UNCHANGED <<facadeVars, runVars, streamVars, fileModVars, diffVars, tsVars, cleanupVars, lateVars>>
    \/ \E i \in 1..2 : par_next(i) /\ UNCHANGED <<facadeVars, runVars, streamVars, fileModVars, diffVars, tsVars, cleanupVars, lateVars>>

SpecPar == InitPar /\ [][NextPar]_vars

(* The records a pipeline yields when it is consumed alone. *)
Alone(repo, kind) ==
    [j \in 1..Len(GitOutput(repo, kind)) |-> ParseRecord(kind, GitOutput(repo, kind)[j])]

(* C19: whatever the interleaving of two iterations over the same active   *)
(* Repo, of two pipelines or of one, each has at every moment yielded a    *)
(* prefix of the record sequence it yields alone, and the whole of it when *)
(* it ends.                                                                *)
C19_InterleavingIsIsolated ==
    \A i \in 1..2 :
        par_iters[i].pc # "none" =>
            LET alone == Alone(par_repo, par_iters[i].kind)
                y == par_iters[i].yielded
            IN /\ Len(y) <= Len(alone)
               /\ y = SubSeq(alone, 1, Len(y))
               /\ (par_iters[i].pc = "done" => y = alone)

(* One iteration has ended with two records while the other, of another    *)
(* pipeline, started after it and before its end, holds its first record.  *)
C19_Witness ==
    /\ par_iters[1].pc = "done" /\ Len(par_iters[1].yielded) = 2
    /\ par_iters[2].pc = "running" /\ Len(par_iters[2].yielded) = 1
    /\ par_iters[1].kind # par_iters[2].kind

-----------------------------------------------------------------------------
(* The wrapped iterator's error mapping (specification Spec).              *)

(* C20 as stated: while a wrapped iterator is consumed, a                  *)
(* FileNotFoundError of the pipeline reaches the consumer as               *)
(* NotClonedError, any other exception of the pipeline as ParserError, and *)
(* no other exception type escapes the iterator.                           *)
C20_Original ==
    last.op = "pull" =>
        /\ (last.exc = "FileNotFoundError" => last.result = "NotClonedError")
        /\ (last.exc \notin {"none", "FileNotFoundError"} => last.result = "ParserError")
        /\ last.result \in {"record", "StopIteration", "NotClonedError", "ParserError"}

(* C20, amended: a FileNotFoundError of the pipeline reaches the consumer  *)
(* as NotClonedError, any other exception derived from Exception (GitError *)
(* and EnvironmentError included) as ParserError; an exception that is not *)
(* derived from Exception (KeyboardInterrupt) passes through unchanged;    *)
(* nothing else escapes the iterator.                                      *)
C20_SafeIterMapping ==
    last.op = "pull" =>
        /\ (last.exc = "FileNotFoundError" => last.result = "NotClonedError")
        /\ (last.exc \in {"GitError", "EnvironmentError", "RuntimeError"} => last.result = "ParserError")
        /\ (last.exc = "KeyboardInterrupt" => last.result = "KeyboardInterrupt")
        /\ (last.exc = "none" => last.result \in {"record", "StopIteration"})
        /\ last.result \in {"record", "StopIteration", "NotClonedError", "ParserError", "KeyboardInterrupt"}

(* A git command of a pipeline has exited non-zero on an active Repo and   *)
(* the consumer got ParserError.                                           *)
C20_Witness ==
    /\ last.op = "pull"
    /\ _active
    /\ last.exc = "GitError"
    /\ last.git = "nonzero"
    /\ last.result = "ParserError"

(* C28 as stated: when a dispose() has returned, after whatever clone()    *)
(* and dispose() calls came before it, the Repo is inactive and no         *)
(* directory made by any of those clone() calls exists.                    *)
C28_Original ==
    last.op = "dispose" =>
        /\ ~_active
        /\ \A c \in 1..MaxClones : temp_dirs[c] \notin {"empty", "cloned"}

(* C29: a clone() that raises (git missing, git too old, `git clone`       *)
(* exiting non-zero) leaves _active as it was; on a Repo that was inactive *)
(* it leaves a Repo all of whose data reads raise NotClonedError or        *)
(* FilterError and hand out no extractor, and on which dispose() changes   *)
(* neither the lifecycle state nor any directory and raises nothing.       *)
C29_FailedCloneKeepsInactive ==
    /\ [][(last'.op = "clone" /\ last'.result # "ok") => _active' = _active]_vars
    /\ []((last.op = "clone" /\ last.result # "ok" /\ ~_active) =>
             \A p \in DataProps : read_result(p) \in {"NotClonedError", "FilterError"})
    /\ [][(last'.op = "read" /\ last.op = "clone" /\ last.result # "ok" /\ ~_active) =>
             (last'.result \in {"NotClonedError", "FilterError"} /\ extractor' = extractor)]_vars
    /\ [][(last'.op = "dispose" /\ last.op = "clone" /\ last.result # "ok" /\ ~_active) =>
             (last'.result = "ok" /\ UNCHANGED <<_active, _clone, temp_dirs>>)]_vars

(* A clone() stopped by a `git clone` that exited non-zero has been        *)
(* followed by a dispose() on the still inactive Repo.                     *)
C29_Witness ==
    /\ last.op = "dispose"
    /\ ~_active
    /\ _clone # 0
    /\ temp_dirs[_clone] = "empty"

-----------------------------------------------------------------------------
(* SpecMain: extract_commits (pipelines/commit_pipeline.py), the lookup    *)
(* table of the default branch and the tagging of the streamed commits.    *)
(* A hash is one character; a line of the default-branch log is a hash     *)
(* followed by a newline, the last line by nothing.                        *)

Whitespace == {" ", "\n"}

(* str.strip() *)
RECURSIVE str_strip(_)
str_strip(s) ==
    IF s = <<>> THEN s
    ELSE IF s[1] \in Whitespace THEN str_strip(Tail(s))
    ELSE IF s[Len(s)] \in Whitespace THEN str_strip(SubSeq(s, 1, Len(s) - 1))
    ELSE s

NoRun == [spool |-> "none", pos |-> 0]

(* The Commit built with in_main=True whatever the table holds. *)
Commit_in_main_always(commit, table) ==
    [commit_hash |-> commit.commit_hash, in_main |-> TRUE]

(* The Commit built from a parsed dict, with                               *)
(* in_main=commit['commit_hash'] in main.                                  *)
Commit(commit, table) ==
    [commit_hash |-> commit.commit_hash, in_main |-> commit.commit_hash \in table]

(* iter_hashes_on_main is started by dict.fromkeys: `git log` is run into  *)
(* a spool; a non-zero exit leaves the run scope with GitError, which      *)
(* leaves extract_commits.                                                 *)
ec_index_start(gitExit) ==
    /\ ec_pc = "start"
    /\ IF gitExit = 0
       THEN /\ main_run' = [spool |-> "open", pos |-> 0]
            /\ ec_pc' = "index"
       ELSE /\ main_run' = [spool |-> "closed", pos |-> 0]
            /\ ec_pc' = "GitError"
    /\ UNCHANGED <<main_log, all_log, main, all_run, ec_out>>

(* dict.fromkeys takes the next line.strip() of the spool. *)
ec_index_line ==
    /\ ec_pc = "index"
    /\ main_run.pos < Len(main_log)
    /\ main' = main \cup {str_strip(main_log[main_run.pos + 1])}
    /\ main_run' = [main_run EXCEPT !.pos = @ + 1]
    /\ UNCHANGED <<main_log, all_log, all_run, ec_out, ec_pc>>

(* The spool is read to its end: the generator returns, its run scope is   *)
(* left and the spool closed; dict.fromkeys returns the table.             *)
ec_index_end ==
    /\ ec_pc = "index"
    /\ main_run.pos = Len(main_log)
    /\ main_run' = [main_run EXCEPT !.spool = "closed"]
    /\ ec_pc' = "log"
    /\ UNCHANGED <<main_log, all_log, main, all_run, ec_out>>

(* `with log_commits(path, ...) as log`: the --all log is run. *)
ec_log_start(gitExit) ==
    /\ ec_pc = "log"
    /\ IF gitExit = 0
       THEN /\ all_run' = [spool |-> "open", pos |-> 0]
            /\ ec_pc' = "parse"
       ELSE /\ all_run' = [spool |-> "closed", pos |-> 0]
            /\ ec_pc' = "GitError"
    /\ UNCHANGED <<main_log, all_log, main, main_run, ec_out>>

(* `for commit in parse_commits(log, ...): yield Commit(...)` *)
ec_commit ==
    /\ ec_pc = "parse"
    /\ all_run.pos < Len(all_log)
    /\ ec_out' = Append(ec_out, Commit(all_log[all_run.pos + 1], main))
    /\ all_run' = [all_run EXCEPT !.pos = @ + 1]
    /\ UNCHANGED <<main_log, all_log, main, main_run, ec_pc>>

ec_end ==
    /\ ec_pc = "parse"
    /\ all_run.pos = Len(all_log)
    /\ all_run' = [all_run EXCEPT !.spool = "closed"]
    /\ ec_pc' = "done"
    /\ UNCHANGED <<main_log, all_log, main, main_run, ec_out>>

Hashes == {<<"h1">>, <<"h2">>, <<"h3">>}

(* What `git log --pretty=format:%H` writes, as the lines a text file      *)
(* iterates over.                                                          *)
HashLines(hs) ==
    [i \in 1..Len(hs) |-> IF i < Len(hs) THEN hs[i] \o <<"\n">> ELSE hs[i]]

InitMain ==
    /\ \E hs \in SeqsUpTo(Hashes, MaxLog) : main_log = HashLines(hs)
    /\ \E hs \in SeqsUpTo(Hashes, MaxLog) : all_log = [i \in 1..Len(hs) |-> [commit_hash |-> hs[i]]]
    /\ main = {}
    /\ main_run = NoRun
    /\ all_run = NoRun
    /\ ec_out = <<>>
    /\ ec_pc = "start"
    /\ FacadeIdle
    /\ RunIdle
    /\ StreamIdle
    /\ FileModIdle
    /\ DiffIdle
    /\ TimestampIdle
    /\ CleanupIdle
    /\ ParIdle
    /\ PathIdle
    /\ HunkIdle

NextMain ==
    \/ \E gitExit \in {0, 128} : ec_index_start(gitExit) /\ UNCHANGED <<facadeVars, runVars, streamVars, fileModVars, diffVars, tsVars, cleanupVars, parVars, pathVars, hunkVars>>
    \/ ec_index_line /\ UNCHANGED <<facadeVars, runVars, streamVars, fileModVars, diffVars, tsVars, cleanupVars, parVars, pathVars, hunkVars>>
    \/ ec_index_end /\ UNCHANGED <<facadeVars, runVars, streamVars, fileModVars, diffVars, tsVars, cleanupVars, parVars, pathVars, hunkVars>>
    \/ \E gitExit \in {0, 128} : ec_log_start(gitExit) /\ UNCHANGED <<facadeVars, runVars, streamVars, fileModVars, diffVars, tsVars, cleanupVars, parVars, pathVars, hunkVars>>
    \/ ec_commit /\ UNCHANGED <<facadeVars, runVars, streamVars, fileModVars, diffVars, tsVars, cleanupVars, parVars, pathVars, hunkVars>>
    \/ ec_end /\ UNCHANGED <<facadeVars, runVars, streamVars, fileModVars, diffVars, tsVars, cleanupVars, parVars, pathVars, hunkVars>>

SpecMain == InitMain /\ [][NextMain]_vars

(* The hashes the default-branch traversal wrote. *)
HashesOnMain == {<<main_log[i][1]>> : i \in 1..Len(main_log)}

(* C23: every emitted Commit has in_main exactly when its hash is among    *)
(* the hashes of the default-branch log; and once the --all log has been   *)
(* spawned or a Commit emitted, the lookup table holds all of those hashes *)
(* and the spool of the default-branch log is closed.                      *)
C23_InMainFromCompleteIndex ==
    /\ \A i \in 1..Len(ec_out) : ec_out[i].in_main <=> ec_out[i].commit_hash \in HashesOnMain
    /\ (all_run.spool # "none" \/ ec_out # <<>>) =>
           (main = HashesOnMain /\ main_run.spool = "closed")

(* The stream has ended having emitted a Commit of the default branch and  *)
(* a Commit outside of it.                                                 *)
C23_Witness ==
    /\ ec_pc = "done"
    /\ \E i \in 1..Len(ec_out) : ec_out[i].in_main
    /\ \E i \in 1..Len(ec_out) : ~ec_out[i].in_main

-----------------------------------------------------------------------------
(* SpecNumstatPath: the path expression of a numstat line, as git writes   *)
(* it for a change, and the two paths parse_numstats makes of it. In a     *)
(* path "=>" stands for the four characters " => ".                        *)

PathExprAlphabet == {"a", "/", "=>", "{", "}"}

(* The paths a git tree can hold: no empty component. *)
GitPaths ==
    {p \in UNION {[1..k -> PathExprAlphabet] : k \in 1..MaxExprPathLen} :
        /\ p[1] # "/"
        /\ p[Len(p)] # "/"
        /\ \A i \in 1..(Len(p) - 1) : ~(p[i] = "/" /\ p[i + 1] = "/")}

Max(S) == CHOOSE x \in S : \A y \in S : y <= x

(* pprint_rename of git (diff.c), which writes the path expression of a    *)
(* rename: the longest common prefix that ends with a slash, the longest   *)
(* common suffix that starts with a slash (it may share the prefix's last  *)
(* slash), and, when either is non-empty, the two middles in braces.       *)
pfx_length(a, b) ==
    Max({0} \cup {n \in 1..Min(Len(a), Len(b)) : a[n] = "/" /\ SubSeq(a, 1, n) = SubSeq(b, 1, n)})

sfx_length(a, b) ==
    LET pfx == pfx_length(a, b)
        floor == IF pfx > 0 THEN pfx - 1 ELSE 0
    IN Max({0} \cup {m \in 1..Min(Len(a), Len(b)) :
                        /\ Len(a) - m >= floor
                        /\ Len(b) - m >= floor
                        /\ a[Len(a) - m + 1] = "/"
                        /\ SubSeq(a, Len(a) - m + 1, Len(a)) = SubSeq(b, Len(b) - m + 1, Len(b))})

pprint_rename(a, b) ==
    LET pfx == pfx_length(a, b)
        sfx == sfx_length(a, b)
        a_mid == SubSeq(a, pfx + 1, Len(a) - sfx)
        b_mid == SubSeq(b, pfx + 1, Len(b) - sfx)
    IN IF pfx + sfx > 0
       THEN SubSeq(a, 1, pfx) \o <<"{">> \o a_mid \o <<"=>">> \o b_mid \o <<"}">> \o SubSeq(a, Len(a) - sfx + 1, Len(a))
       ELSE a_mid \o <<"=>">> \o b_mid

(* The path expression of a numstat line: the path, or for a rename what   *)
(* pprint_rename makes of the two paths.                                   *)
NumstatExpr(change) ==
    IF change.path_a = change.path_b THEN change.path_a
    ELSE pprint_rename(change.path_a, change.path_b)

(* parse_numstats reaches line 196 with the expression of the line. *)
numstat_path ==
    /\ ns_pc = "call"
    /\ ns_paths' = numstat_paths(ns_expr)
    /\ ns_pc' = "returned"
    /\ UNCHANGED <<ns_change, ns_expr>>

InitNumstatPath ==
    /\ ns_change \in [path_a : GitPaths, path_b : GitPaths]
    /\ ns_expr = NumstatExpr(ns_change)
    /\ ns_paths = <<>>
    /\ ns_pc = "call"
    /\ FacadeIdle
    /\ RunIdle
    /\ StreamIdle
    /\ FileModIdle
    /\ DiffIdle
    /\ TimestampIdle
    /\ CleanupIdle
    /\ ParIdle
    /\ MainIdle
    /\ HunkIdle

NextNumstatPath ==
    numstat_path /\ UNCHANGED <<facadeVars, runVars, streamVars, fileModVars, diffVars, tsVars, cleanupVars, parVars, mainVars, hunkVars>>

SpecNumstatPath == InitNumstatPath /\ [][NextNumstatPath]_vars

(* The number of arrows in an expression. *)
Arrows(expr) == Cardinality({i \in 1..Len(expr) : expr[i] = "=>"})

HasBrace(expr) == \E i \in 1..Len(expr) : expr[i] = "{"

(* What stands after the first arrow of an expression. *)
AfterFirstArrow(expr) ==
    LET i == CHOOSE k \in 1..Len(expr) : expr[k] = "=>" /\ \A m \in 1..(k - 1) : expr[m] # "=>"
    IN SubSeq(expr, i + 1, Len(expr))

BeforeFirstArrow(expr) ==
    LET i == CHOOSE k \in 1..Len(expr) : expr[k] = "=>" /\ \A m \in 1..(k - 1) : expr[m] # "=>"
    IN SubSeq(expr, 1, i - 1)

(* C24 as stated: for an expression without braces, with no arrow both     *)
(* paths are the whole expression; with one or more arrows path_a is the   *)
(* text before the first arrow and path_b all of the text after it.        *)
C24_Original ==
    (ns_pc = "returned" /\ ~HasBrace(ns_expr)) =>
        IF Arrows(ns_expr) = 0
        THEN ns_paths = <<ns_expr, ns_expr>>
        ELSE ns_paths = <<BeforeFirstArrow(ns_expr), AfterFirstArrow(ns_expr)>>

(* C25 as stated: for a rename that git writes in brace form, the two      *)
(* paths made of the expression are the two paths of the rename (those the *)
(* name-status line carries), also when a brace character stands in the    *)
(* common prefix or suffix.                                                *)
C25_Original ==
    (/\ ns_pc = "returned"
     /\ ns_change.path_a # ns_change.path_b
     /\ pfx_length(ns_change.path_a, ns_change.path_b) + sfx_length(ns_change.path_a, ns_change.path_b) > 0) =>
        ns_paths = <<ns_change.path_a, ns_change.path_b>>

-----------------------------------------------------------------------------
(* SpecHunks: the hunks of one file piece in parse_diffs                   *)
(* (pipelines/diff_pipeline.py), from what `git log -p -U0` writes for a   *)
(* file to the Diffs yielded for it. Characters are "@@" (the two at       *)
(* signs of a hunk header), digits, " ", ",", "+", "-", "\n", "\r" (a      *)
(* carriage return) and letters.                                           *)

(* str(n) for n >= 0 *)
RECURSIVE str_of(_)
str_of(n) ==
    IF n < 10 THEN <<Digits[n + 1]>>
    ELSE str_of(n \div 10) \o <<Digits[(n % 10) + 1]>>

(* The number of lines of a hunk that carry a marker. *)
CountMarked(lines, m) == Cardinality({i \in 1..Len(lines) : lines[i].marker = m})

(* One side of a hunk header as git writes it: the start, and the count    *)
(* unless it is 1.                                                         *)
HunkRange(start, count) ==
    IF count = 1 THEN str_of(start) ELSE str_of(start) \o <<",">> \o str_of(count)

(* The hunk header line, with its section heading, and the hunk's lines. *)
HunkText(hunk) ==
    <<"@@", " ", "-">> \o HunkRange(hunk.start_a, CountMarked(hunk.lines, "-"))
    \o <<" ", "+">> \o HunkRange(hunk.start_b, CountMarked(hunk.lines, "+"))
    \o <<" ", "@@">> \o hunk.heading \o <<"\n">> \o HunkContent(hunk.lines)

RECURSIVE HunksText(_)
HunksText(hunks) ==
    IF hunks = <<>> THEN <<>> ELSE HunkText(hunks[1]) \o HunksText(Tail(hunks))

(* What git writes for the file after `diff --git`: the rest of that line, *)
(* then the ---/+++ lines and the hunks, or for a file without hunks the   *)
(* line that says the binary files differ.                                 *)
FilePiece(hunks) ==
    <<" ", "a", "/", "x", " ", "b", "/", "x", "\n">>
    \o (IF hunks = <<>> THEN <<"B", "\n">>
        ELSE <<"-", "-", "-", " ", "a", "/", "x", "\n", "+", "+", "+", " ", "b", "/", "x", "\n">>)
    \o HunksText(hunks)

(* Reading the spool, a TemporaryFile opened in text mode 'w+' with the    *)
(* default newline handling: on input "\r\n" and a lone "\r" both become   *)
(* "\n".                                                                   *)
TextIOWrapper_read(bytes) ==
    LET Kept(i) == ~(bytes[i] = "\n" /\ i > 1 /\ bytes[i - 1] = "\r")
        kept == SelectSeq([i \in 1..Len(bytes) |-> i], Kept)
    IN [k \in 1..Len(kept) |-> IF bytes[kept[k]] = "\r" THEN "\n" ELSE bytes[kept[k]]]

At(s, i) == IF i \in 1..Len(s) THEN s[i] ELSE ""

(* \d+ at position i: the length of the run of digits that starts there. *)
RECURSIVE DigitRun(_, _)
DigitRun(s, i) ==
    IF IsDigit(At(s, i)) THEN 1 + DigitRun(s, i + 1) ELSE 0

(* The part (\d+)(?:,(\d+))? of HUNK_HEADER_RGX at position i: the two     *)
(* groups (the second empty when it does not take part) and the position   *)
(* after the match.                                                        *)
RangeAt(s, i) ==
    LET n1 == DigitRun(s, i)
        n2 == IF At(s, i + n1) = "," THEN DigitRun(s, i + n1 + 1) ELSE 0
    IN [ok |-> n1 >= 1,
        start |-> SubSeq(s, i, i + n1 - 1),
        length |-> IF n2 >= 1 THEN SubSeq(s, i + n1 + 1, i + n1 + n2) ELSE <<>>,
        next |-> IF n2 >= 1 THEN i + n1 + 1 + n2 ELSE i + n1]

(* HUNK_HEADER_RGX at position i: ^ (with MULTILINE: the start of the text *)
(* or the position after a newline), "@@ -", a range, " +", a range,       *)
(* " @@".                                                                  *)
HeaderAt(s, i) ==
    LET a == RangeAt(s, i + 3)
        b == RangeAt(s, a.next + 2)
    IN [ok |-> /\ (i = 1 \/ At(s, i - 1) = "\n")
               /\ At(s, i) = "@@" /\ At(s, i + 1) = " " /\ At(s, i + 2) = "-"
               /\ a.ok
               /\ At(s, a.next) = " " /\ At(s, a.next + 1) = "+"
               /\ b.ok
               /\ At(s, b.next) = " " /\ At(s, b.next + 1) = "@@",
        groups |-> <<a.start, a.length, b.start, b.length>>,
        next |-> b.next + 2]

(* HUNK_HEADER_RGX.split(file)[1:], five by five: for each match, left to  *)
(* right, its four groups and the text from its end to the next match (to  *)
(* the end of the piece after the last). A match starts at a line start    *)
(* and holds no newline, so no two matches overlap.                        *)
hunks_raw(file) ==
    LET at == {i \in 1..Len(file) : HeaderAt(file, i).ok}
        nth == [j \in 1..Cardinality(at) |-> CHOOSE i \in at : Cardinality({k \in at : k < i}) = j - 1]
    IN [j \in 1..Cardinality(at) |->
           [groups |-> HeaderAt(file, nth[j]).groups,
            post |-> SubSeq(file, HeaderAt(file, nth[j]).next,
                            IF j < Cardinality(at) THEN nth[j + 1] - 1 ELSE Len(file))]]

(* The tuple comprehension of lines 99-108 raises when the text after a    *)
(* header holds no newline ([1] of a one-element split).                   *)
hunks_grouped_raises(raw) ==
    \E i \in 1..Len(raw) : \A k \in 1..Len(raw[i].post) : raw[i].post[k] # "\n"

(* hunks_grouped: the numbers of each header, an absent count read as 1    *)
(* (`or 1`; the string '0' is not false), and the content after the header *)
(* line.                                                                   *)
hunks_grouped(raw) ==
    [i \in 1..Len(raw) |->
        [start_a |-> int(raw[i].groups[1]),
         length_a |-> IF raw[i].groups[2] = <<>> THEN 1 ELSE int(raw[i].groups[2]),
         start_b |-> int(raw[i].groups[3]),
         length_b |-> IF raw[i].groups[4] = <<>> THEN 1 ELSE int(raw[i].groups[4]),
         content |-> SubSeq(raw[i].post, IndexOf(raw[i].post, "\n") + 1, Len(raw[i].post))]]

(* The lines that start with c, without it. *)
RECURSIVE lines_starting(_, _)
lines_starting(lines, c) ==
    IF lines = <<>> THEN <<>>
    ELSE (IF startswith(lines[1], c) THEN <<Tail(lines[1])>> ELSE <<>>) \o lines_starting(Tail(lines), c)

(* The file piece is read from the spool. *)
hunks_file ==
    /\ hk_pc = "file"
    /\ hk_file' = TextIOWrapper_read(FilePiece(hk_hunks))
    /\ hk_pc' = "group"
    /\ UNCHANGED <<hk_hunks, hk_grouped, hk_out>>

(* Lines 96-108: the file piece is split at the hunk headers and the       *)
(* pieces are grouped; an exception skips the record with a warning.       *)
hunks_group ==
    /\ hk_pc = "group"
    /\ LET raw == hunks_raw(hk_file) IN
        IF hunks_grouped_raises(raw)
        THEN /\ hk_pc' = "skipped"
             /\ UNCHANGED hk_grouped
        ELSE /\ hk_grouped' = hunks_grouped(raw)
             /\ hk_pc' = "hunks"
    /\ UNCHANGED <<hk_hunks, hk_file, hk_out>>

(* Lines 110-138: one Diff is yielded for a hunk (paths and hash left      *)
(* out).                                                                   *)
hunks_yield ==
    /\ hk_pc = "hunks"
    /\ hk_grouped # <<>>
    /\ LET hunk == Head(hk_grouped)
           lines == str_splitlines(hunk.content)
       IN hk_out' = Append(hk_out, [start_a |-> hunk.start_a,
                                    length_a |-> hunk.length_a,
                                    start_b |-> hunk.start_b,
                                    length_b |-> hunk.length_b,
                                    additions |-> lines_starting(lines, "+"),
                                    deletions |-> lines_starting(lines, "-")])
    /\ hk_grouped' = Tail(hk_grouped)
    /\ UNCHANGED <<hk_hunks, hk_file, hk_pc>>

hunks_end ==
    /\ hk_pc = "hunks"
    /\ hk_grouped = <<>>
    /\ hk_pc' = "done"
    /\ UNCHANGED <<hk_hunks, hk_file, hk_grouped, hk_out>>

(* The texts of the lines of the model: a letter, a letter before the CR   *)
(* of a CRLF line end, and a line of a file with bare carriage returns     *)
(* between its parts, one part reading like a hunk header.                 *)
HunkTexts ==
    {<<"x">>,
     <<"x", "\r">>,
     <<"x", "\r", "@@", " ", "-", "9", ",", "0", " ", "+", "9", " ", "@@", "\r", "+", "y">>}

(* A hunk at the top of the file, without a section heading, and one      *)
(* further down, with the heading git takes from the line before it.       *)
HunkPlaces == {[start_a |-> 1, start_b |-> 1, heading |-> <<>>],
               [start_a |-> 3, start_b |-> 12, heading |-> <<" ", "x">>]}

GitHunks ==
    {[start_a |-> pl.start_a, start_b |-> pl.start_b, heading |-> pl.heading, lines |-> ls] :
        pl \in HunkPlaces,
        ls \in UNION {[1..k -> [marker : {"+", "-"}, text : HunkTexts]] : k \in 1..MaxHunkSize}}

InitHunks ==
    /\ hk_hunks \in UNION {[1..k -> GitHunks] : k \in 0..MaxHunks}
    /\ hk_file = <<>>
    /\ hk_grouped = <<>>
    /\ hk_out = <<>>
    /\ hk_pc = "file"
    /\ FacadeIdle
    /\ RunIdle
    /\ StreamIdle
    /\ FileModIdle
    /\ DiffIdle
    /\ TimestampIdle
    /\ CleanupIdle
    /\ ParIdle
    /\ MainIdle
    /\ PathIdle

NextHunks ==
    \/ hunks_file /\ UNCHANGED <<facadeVars, runVars, streamVars, fileModVars, diffVars, tsVars, cleanupVars, parVars, mainVars, pathVars>>
    \/ hunks_group /\ UNCHANGED <<facadeVars, runVars, streamVars, fileModVars, diffVars, tsVars, cleanupVars, parVars, mainVars, pathVars>>
    \/ hunks_yield /\ UNCHANGED <<facadeVars, runVars, streamVars, fileModVars, diffVars, tsVars, cleanupVars, parVars, mainVars, pathVars>>
    \/ hunks_end /\ UNCHANGED <<facadeVars, runVars, streamVars, fileModVars, diffVars, tsVars, cleanupVars, parVars, mainVars, pathVars>>

SpecHunks == InitHunks /\ [][NextHunks]_vars

(* C26 as stated: when the file piece has been gone through, exactly one   *)
(* Diff has been emitted per hunk header git wrote, in header order, with  *)
(* the header's two starts and with each length equal to the header's      *)
(* count, 1 when git left the count out; none for a file without hunks.    *)
C26_Original ==
    hk_pc = "done" =>
        /\ Len(hk_out) = Len(hk_hunks)
        /\ \A i \in 1..Len(hk_out) :
            i <= Len(hk_hunks) =>
                /\ hk_out[i].start_a = hk_hunks[i].start_a
                /\ hk_out[i].start_b = hk_hunks[i].start_b
                /\ hk_out[i].length_a = CountMarked(hk_hunks[i].lines, "-")
                /\ hk_out[i].length_b = CountMarked(hk_hunks[i].lines, "+")

=============================================================================
